---- MODULE Spec2Model ----
(***************************************************************************)
(* A model of uorm's execution layer: the connection pool behind a Driver, *)
(* MysqlConnection's guarded operations, Session's per-call connections,   *)
(* TransactionContext with its drop-triggered rollback, the template cache *)
(* (get_ast), Mapper.create / Mapper.batch_create, the template renderer   *)
(* (Context lookups, eval_atom / eval_expr and render), the mapper store   *)
(* (process_mapper_data, find_mapper), the lookups of the Mapper           *)
(* operations, and the template parser.                                    *)
(***************************************************************************)
EXTENDS Integers, Sequences, FiniteSets, TLC

\* ------------------------------------------------------------------ bounds
NumTasks == 2    \* tasks using Sessions and transaction contexts
NumConns == 2    \* connections the pool can hand out
NumLanes == 2    \* concurrent &self calls one context can have in flight
NumCallers == 2  \* concurrent callers of get_ast
NumNames == 2    \* template names
NumContents == 3 \* template contents
HashSpace == 2   \* values the content hash takes (fewer than contents: collisions happen)
MaxCompiles == 3 \* trees built in one run
MaxBatch == 2    \* inputs of one batch_create
MaxKey == 3      \* rows inserted in one run
MaxAffected == 2 \* affected-row counts a statement reports: 1..MaxAffected
NumErrors == 2   \* distinct errors the pool and the backend raise
MaxDepth == 3    \* segments of a dotted key
MaxLocals == 2   \* bindings on a context's stack in the lookup runs
MaxBigOffset == 3 \* the I64 values 2^53 .. 2^53 + MaxBigOffset are among the sample values
MaxAtoms == 3    \* atoms of a test expression
MaxStack == 4    \* nested render() calls followed
NumNamespaces == 2 \* mapper namespaces
NumIds == 2      \* statement ids within a namespace
NumTypes == 2    \* backend types (databaseType values and Driver::type())
MaxNodes == 2    \* statement nodes of one mapper document
MaxLoads == 2    \* mapper documents loaded in one run
MaxRows == 2     \* rows a query yields: 0..MaxRows
MaxWide == 3     \* wide characters before the attribute of a sample tag
MaxPieces == 3   \* pieces a sample template is put together from

Tasks == 1..NumTasks
Conns == 1..NumConns
Lanes == 1..NumLanes
NoConn == 0
NoCtx == 0
Callers == 1..NumCallers
Names == 1..NumNames
Contents == 1..NumContents
Namespaces == 1..NumNamespaces
Ids == 1..NumIds
Types == 1..NumTypes

\* The &self operations of TransactionContext / Connection.
OpKinds == {"query", "execute", "last_insert_id"}

VARIABLES
  idle,          \* connections the pool can hand out now
  pc,            \* per task: "idle" | "begin" | "tx" | "commit" | "rollback"
  ctxConn,       \* per task: TransactionContext.conn (NoConn: no context)
  committed,     \* per task: TransactionContext.committed
  ctxAcq,        \* per task: pool acquires made for the current context
  lane,          \* per task and lane: "idle" | "wait" (called, not yet holding the guard) | "run"
  laneKind,      \* per task and lane: the operation running ("none" when none is)
  laneConn,      \* per task and lane: the connection the running call operates on
  sessConn,      \* per task: the connection a Session call in flight holds
  sessAcq,       \* per task: pool acquires made by the Session call in flight
  rb,            \* per connection: the rollback task spawned by Drop: "none" | "spawned" | "running" | "done"
  lastTx,        \* per connection: last transaction-control call issued on it
  stmts,         \* per connection: statements issued since its last BEGIN: "none" | "pending" | "applied"
  txRet,         \* per task: what its last begin / commit / rollback returned, <<call, result>>
  dropped,       \* per task: "no", or the committed flag of the context it dropped last
  \* the template cache and the callers of get_ast
  cache,         \* TEMPLATE_CACHE: per template name, NoEntry or a CachedTemplate
  compiles,      \* trees built by parse_template so far (the identity of the next Arc)
  gpc,           \* per caller: "idle" | "get" | "miss" | "done"
  gName,         \* per caller: template_name
  gContent,      \* per caller: template_content
  gRet,          \* per caller: the tree get_ast returned
  gHit,          \* per caller: the tree was returned from the cache, nothing compiled
  \* one caller of Mapper.create / Mapper.batch_create and the backend behind the pool
  mOp,           \* the Mapper call: "none" | "create" | "batch_create"
  mpc,           \* "idle" | "next" | "execute" | "key" | "last_insert_id" | "ok" | "err"
  mGen,          \* mapper.use_generated_keys
  mDeOk,         \* R deserializes from an i64
  mN,            \* args.len()
  mI,            \* the element the loop is at (1-based)
  mConn,         \* the connection the Session call in flight holds
  mAffected,     \* `affected` of the current element
  mCalls,        \* the Session calls made so far by this Mapper call, in order
  mKeys,         \* per executed element: the key its insert generated
  mAffs,         \* per executed element: the affected count its insert reported
  mResults,      \* `results` (for create: the value returned)
  lastId,        \* per connection: what last_insert_id() answers on it
  nextKey,       \* the table's next AUTO_INCREMENT value
  rows,          \* keys of the rows in the table
  \* Session::execute / Session::query calls followed step by step
  scPc,          \* per task: "idle" | "called" | "acquired" | "statement" | "returned"
  scKind,        \* per task: "execute" | "query"
  scConn,        \* per task: `conn`
  scAcquires,    \* per task: pool.connection() calls made by the call
  scStatements,  \* per task: statements the call sent to the backend
  scFail,        \* per task: the error the pool or the backend raised in the call
  scRet,         \* per task: what the call returned
  \* a render Context and the last function applied to it
  ctxRoot,       \* Context.root
  ctxLocals,     \* Context.locals: a stack of [k |-> key, v |-> value]
  lastCall,      \* the last call of a pure function on the context, with its result
  \* a render in progress: its RenderBuffer and its stack of render() calls
  rStatus,       \* "idle", "running", "done", or "overflow"
  rTree,         \* the nodes render was called on
  rStack,        \* the frames of the nested render() calls, outermost first
  rSql,          \* buf.sql, piece by piece
  rParams,       \* buf.params
  rCount,        \* buf.param_count
  rSeen,         \* the tree each Include found in the cache (NoTree: none)
  rFirst,        \* the first render that returned: its tree, what it saw and returned
  \* the store of SQL mappers and the documents loaded into it
  store,         \* SQL_MAPPERS: per namespace and id, the Vec<Arc<SqlMapper>>
  loads,         \* documents processed so far
  lDoc,          \* the document processed last
  lRet,          \* what process_mapper_data returned for it: "none" | "ok" | "err"
  fCall,         \* the last find_mapper call, with its result
  \* one caller of the Mapper operations
  oOp,           \* "none" | "get" | "list" | "create" | "batch_create" | "update" | "delete"
  oPc,           \* "idle" | "session" | "statement" | "key" | "last_insert_id" | "returned"
  oId,           \* sql_id
  oType,         \* self.pool.type()
  oArgs,         \* batch_create: the elements of args not yet done; 1 for the others
  oAcquires,     \* connections the call acquired from the pool
  oStatements,   \* statements the call sent to the backend
  oRows,         \* rows the query yielded
  oRet,          \* what the call returned
  oMapper,       \* `mapper`: what get_sql_mapper found
  \* one run of Parser::parse
  pPc,           \* "idle" | "parsing" | "done" | "panicked"
  pTemplate,     \* Parser.template, character by character
  pPos,          \* Parser.pos
  pNodes,        \* Parser.nodes_stack
  pTags,         \* Parser.tag_stack
  pOut           \* the tree parse returned

txvars == <<idle, pc, ctxConn, committed, ctxAcq, lane, laneKind, laneConn, sessConn,
            sessAcq, rb, lastTx, stmts, txRet, dropped>>

cachevars == <<cache, compiles, gpc, gName, gContent, gRet, gHit>>

mapvars == <<mOp, mpc, mGen, mDeOk, mN, mI, mConn, mAffected, mCalls, mKeys, mAffs,
             mResults, lastId, nextKey, rows>>

\* txvars without the pool's idle set
poolusers == <<pc, ctxConn, committed, ctxAcq, lane, laneKind, laneConn, sessConn,
               sessAcq, rb, lastTx, stmts, txRet, dropped>>

sessvars == <<scPc, scKind, scConn, scAcquires, scStatements, scFail, scRet>>

ctxvars == <<ctxRoot, ctxLocals, lastCall>>

rendervars == <<rStatus, rTree, rStack, rSql, rParams, rCount, rSeen, rFirst>>

loadvars == <<store, loads, lDoc, lRet, fCall>>

opvars == <<oOp, oPc, oId, oType, oArgs, oAcquires, oStatements, oRows, oRet, oMapper>>

parsevars == <<pPc, pTemplate, pPos, pNodes, pTags, pOut>>

\* the groups added after the first three
latervars == <<sessvars, ctxvars, rendervars, loadvars, opvars, parsevars>>

\* what a step of a Session call leaves alone, besides its own variables and idle
sessionFrame ==
  <<poolusers, cachevars, mapvars, ctxvars, rendervars, loadvars, opvars, parsevars>>

\* what a step on the context leaves alone
contextFrame ==
  <<txvars, cachevars, mapvars, sessvars, rendervars, loadvars, opvars, parsevars>>

\* what a step of a render leaves alone, besides the buffer and the context
renderFrame ==
  <<txvars, cachevars, mapvars, sessvars, loadvars, opvars, parsevars>>

\* what a load or a find_mapper call leaves alone
loaderFrame == <<txvars, cachevars, mapvars, sessvars, ctxvars, rendervars, opvars, parsevars>>

\* what a step of a Mapper operation leaves alone
opsFrame == <<txvars, cachevars, mapvars, sessvars, ctxvars, rendervars, loadvars, parsevars>>

\* what a step of the parser leaves alone
parseFrame == <<txvars, cachevars, mapvars, sessvars, ctxvars, rendervars, loadvars, opvars>>

vars == <<txvars, cachevars, mapvars, latervars>>

\* --------------------------------------------------------------- helpers

\* task_local TX_CONTEXT: nothing in the crate ever enters TX_CONTEXT.scope(..),
\* so try_with finds no context for any task.
TX_CONTEXT(t) == NoCtx

\* The operations in progress on connection k (each holds the Mutex<Conn> of
\* the wrapper around k).
Running(k) ==
     {<<"begin", t, 0>> : t \in {u \in Tasks : pc[u] = "begin" /\ ctxConn[u] = k}}
  \cup {<<"commit", t, 0>> : t \in {u \in Tasks : pc[u] = "commit" /\ ctxConn[u] = k}}
  \cup {<<"rollback", t, 0>> : t \in {u \in Tasks : pc[u] = "rollback" /\ ctxConn[u] = k}}
  \cup {<<"lane", p[1], p[2]>> :
          p \in {q \in Tasks \X Lanes : lane[q[1]][q[2]] = "run" /\ laneConn[q[1]][q[2]] = k}}
  \cup {<<"session", t, 0>> : t \in {u \in Tasks : sessConn[u] = k}}
  \cup {<<"drop_rollback", 0, 0>> : x \in {y \in {k} : rb[y] = "running"}}

\* Mutant: the operations of a connection do not take its guard.
LockFree_NoGuard(k) == TRUE

\* self.conn.lock().await: the guard is free.
LockFree(k) == Running(k) = {}

\* Mutant: a call of the context runs on another connection than the one
\* begin() acquired.
TxConn_Other(t) == CHOOSE k \in Conns : k # ctxConn[t]

\* The connection the calls of a context run on: self.conn.
TxConn(t) == ctxConn[t]

\* Mutant: Drop spawns the rollback task whatever the flag says.
DropSpawnsRollback_Always(t) == TRUE

\* Mutant: the test of Drop inverted.
DropSpawnsRollback_Inverted(t) == committed[t]

\* Drop: if !self.committed, a rollback task is spawned.
DropSpawnsRollback(t) == ~committed[t]

\* Mutant: the spawned task does not keep the connection alive, so the drop
\* of the context releases it.
RollbackTaskHoldsConn_Not(t) == FALSE

\* Drop: the spawned task owns a clone of the Arc, so the connection outlives
\* the context until that task ends.
RollbackTaskHoldsConn(t) == DropSpawnsRollback(t)

\* The statement the spawned task sends.
DropCall == "rollback"

\* The effect of a transaction-control statement that succeeded on the
\* statements issued since BEGIN.
AfterTxCall(call, s) ==
  IF call = "commit" THEN (IF s = "pending" THEN "applied" ELSE s)
  ELSE IF call = "rollback" THEN (IF s = "pending" THEN "none" ELSE s)
  ELSE "none"

\* The record a connection object keeps ends with the object: when the last
\* Arc<dyn Connection> is dropped the inner connection goes back to the pool,
\* and the next acquire wraps it in a new object.
Forget(f, k) == [f EXCEPT ![k] = "none"]

\* What begin / commit / rollback returned to its caller: Ok(..) or Err(e).
TxResult(call, ok) == <<call, IF ok THEN "ok" ELSE "err">>

\* No transaction call has returned yet.
NoTxRet == <<"none", "none">>

\* Mutant: the flag is set whatever the statement answered.
CommittedAfter_Always(ok, was) == TRUE

\* commit: `self.conn.commit().await?; self.committed = true`, and rollback:
\* `if r.is_ok() { self.committed = true }`: the flag is set only when the
\* statement succeeded.
CommittedAfter(ok, was) == IF ok THEN TRUE ELSE was

\* Mutant: the connection of a failed begin is never given back.
Release_Leaked(pool, k) == pool

\* `conn.begin().await?` returns early: the only Arc of the connection, the
\* local `conn`, is dropped and the connection goes back to the pool.
Release(pool, k) == pool \cup {k}

LanesIdle(t) == \A i \in Lanes : lane[t][i] = "idle"

\* A TransactionContext owned by task t exists.
HasCtx(t) == pc[t] \in {"tx", "commit", "rollback"}

\* --------------------------------------------------------------- Init

InitTx ==
  /\ idle = Conns
  /\ pc = [t \in Tasks |-> "idle"]
  /\ ctxConn = [t \in Tasks |-> NoConn]
  /\ committed = [t \in Tasks |-> FALSE]
  /\ ctxAcq = [t \in Tasks |-> 0]
  /\ lane = [t \in Tasks |-> [i \in Lanes |-> "idle"]]
  /\ laneKind = [t \in Tasks |-> [i \in Lanes |-> "none"]]
  /\ laneConn = [t \in Tasks |-> [i \in Lanes |-> NoConn]]
  /\ sessConn = [t \in Tasks |-> NoConn]
  /\ sessAcq = [t \in Tasks |-> 0]
  /\ rb = [k \in Conns |-> "none"]
  /\ lastTx = [k \in Conns |-> "none"]
  /\ stmts = [k \in Conns |-> "none"]
  /\ txRet = [t \in Tasks |-> NoTxRet]
  /\ dropped = [t \in Tasks |-> "no"]

\* ------------------------------------------------------- Session calls

\* Session::execute / query / last_insert_id, up to the backend call: with a
\* task-local context the call is delegated to it; otherwise a connection is
\* drawn from the pool and the statement is sent on it.
SessionStart(t) ==
  /\ pc[t] \in {"idle", "tx"}
  /\ LanesIdle(t)
  /\ sessConn[t] = NoConn
  /\ IF TX_CONTEXT(t) # NoCtx
       THEN /\ LockFree(ctxConn[TX_CONTEXT(t)])
            /\ sessConn' = [sessConn EXCEPT ![t] = ctxConn[TX_CONTEXT(t)]]
            /\ sessAcq' = [sessAcq EXCEPT ![t] = 0]
            /\ idle' = idle
       ELSE \E k \in idle :
            /\ LockFree(k)
            /\ sessConn' = [sessConn EXCEPT ![t] = k]
            /\ sessAcq' = [sessAcq EXCEPT ![t] = 1]
            /\ idle' = idle \ {k}
  /\ UNCHANGED <<pc, ctxConn, committed, ctxAcq, lane, laneKind, laneConn, rb, lastTx, stmts>>
  /\ UNCHANGED <<txRet, dropped>>
  /\ UNCHANGED <<cachevars, mapvars, latervars>>

\* self.pool.connection().await? fails: the error is returned, nothing was
\* acquired and no statement is sent.
SessionAcquireFail(t) ==
  /\ pc[t] \in {"idle", "tx"}
  /\ LanesIdle(t)
  /\ sessConn[t] = NoConn
  /\ TX_CONTEXT(t) = NoCtx
  /\ UNCHANGED txvars
  /\ UNCHANGED <<cachevars, mapvars, latervars>>

\* The backend call of a Session call ends (ok or not); the call returns and
\* its local `conn` goes out of scope, which gives the connection back to the
\* pool (unless it is the context's).
SessionFinish(t, ok) ==
  /\ sessConn[t] # NoConn
  /\ idle' = IF TX_CONTEXT(t) # NoCtx THEN idle ELSE idle \cup {sessConn[t]}
  /\ sessConn' = [sessConn EXCEPT ![t] = NoConn]
  /\ sessAcq' = [sessAcq EXCEPT ![t] = 0]
  /\ UNCHANGED <<pc, ctxConn, committed, ctxAcq, lane, laneKind, laneConn, rb, lastTx, stmts>>
  /\ UNCHANGED <<txRet, dropped>>
  /\ UNCHANGED <<cachevars, mapvars, latervars>>

\* ------------------------------------------------- TransactionContext

\* TransactionContext::begin: pool.connection().await? succeeded and BEGIN is
\* sent on the new connection.
TxBeginStart(t) ==
  /\ pc[t] = "idle"
  /\ sessConn[t] = NoConn
  /\ \E k \in idle :
       /\ LockFree(k)
       /\ idle' = idle \ {k}
       /\ ctxConn' = [ctxConn EXCEPT ![t] = k]
       /\ lastTx' = [lastTx EXCEPT ![k] = "begin"]
  /\ pc' = [pc EXCEPT ![t] = "begin"]
  /\ ctxAcq' = [ctxAcq EXCEPT ![t] = 1]
  /\ txRet' = [txRet EXCEPT ![t] = NoTxRet]
  /\ dropped' = [dropped EXCEPT ![t] = "no"]
  /\ UNCHANGED <<committed, lane, laneKind, laneConn, sessConn, sessAcq, rb, stmts>>
  /\ UNCHANGED <<cachevars, mapvars, latervars>>

\* TransactionContext::begin: pool.connection().await? fails: `?` returns the
\* error before conn.begin() is reached.
TxBeginAcquireFail(t) ==
  /\ pc[t] = "idle"
  /\ sessConn[t] = NoConn
  /\ txRet' = [txRet EXCEPT ![t] = <<"acquire", "err">>]
  /\ dropped' = [dropped EXCEPT ![t] = "no"]
  /\ UNCHANGED <<idle, pc, ctxConn, committed, ctxAcq, lane, laneKind, laneConn,
                 sessConn, sessAcq, rb, lastTx, stmts>>
  /\ UNCHANGED <<cachevars, mapvars, latervars>>

\* conn.begin().await? returns: on success the context exists, committed:
\* false; on failure the connection is dropped (back to the pool) and no
\* context is created.
TxBeginFinish(t, ok) ==
  /\ pc[t] = "begin"
  /\ IF ok
       THEN /\ pc' = [pc EXCEPT ![t] = "tx"]
            /\ stmts' = [stmts EXCEPT ![ctxConn[t]] = AfterTxCall("begin", @)]
            /\ UNCHANGED <<idle, ctxConn, ctxAcq>>
       ELSE /\ pc' = [pc EXCEPT ![t] = "idle"]
            /\ idle' = Release(idle, ctxConn[t])
            /\ ctxConn' = [ctxConn EXCEPT ![t] = NoConn]
            /\ ctxAcq' = [ctxAcq EXCEPT ![t] = 0]
            /\ UNCHANGED stmts
  /\ lastTx' = IF ok THEN lastTx ELSE Forget(lastTx, ctxConn[t])
  /\ committed' = [committed EXCEPT ![t] = FALSE]
  /\ txRet' = [txRet EXCEPT ![t] = TxResult("begin", ok)]
  /\ UNCHANGED <<lane, laneKind, laneConn, sessConn, sessAcq, rb, dropped>>
  /\ UNCHANGED <<cachevars, mapvars, latervars>>

\* TransactionContext::query / execute / last_insert_id (&self) is called: the
\* template is rendered and the call asks for the connection's guard.
TxOpCall(t, i) ==
  /\ pc[t] = "tx"
  /\ sessConn[t] = NoConn
  /\ lane[t][i] = "idle"
  /\ lane' = [lane EXCEPT ![t][i] = "wait"]
  /\ UNCHANGED <<idle, pc, ctxConn, committed, ctxAcq, laneKind, laneConn, sessConn,
                 sessAcq, rb, lastTx, stmts>>
  /\ UNCHANGED <<txRet, dropped>>
  /\ UNCHANGED <<cachevars, mapvars, latervars>>

\* The call gets the guard and sends its statement (a query, an execute or a
\* last_insert_id) on the connection.
TxOpStart(t, i, kind) ==
  /\ lane[t][i] = "wait"
  /\ LockFree(TxConn(t))
  /\ lane' = [lane EXCEPT ![t][i] = "run"]
  /\ laneKind' = [laneKind EXCEPT ![t][i] = kind]
  /\ laneConn' = [laneConn EXCEPT ![t][i] = TxConn(t)]
  /\ UNCHANGED <<idle, pc, ctxConn, committed, ctxAcq, sessConn, sessAcq, rb, lastTx,
                 stmts>>
  /\ UNCHANGED <<txRet, dropped>>
  /\ UNCHANGED <<cachevars, mapvars, latervars>>

\* The call returns; a successful execute leaves its statement in the
\* connection's open transaction.
TxOpFinish(t, i, ok) ==
  /\ lane[t][i] = "run"
  /\ stmts' = IF ok /\ laneKind[t][i] = "execute"
                THEN [stmts EXCEPT ![laneConn[t][i]] = "pending"]
                ELSE stmts
  /\ lane' = [lane EXCEPT ![t][i] = "idle"]
  /\ laneKind' = [laneKind EXCEPT ![t][i] = "none"]
  /\ laneConn' = [laneConn EXCEPT ![t][i] = NoConn]
  /\ UNCHANGED <<idle, pc, ctxConn, committed, ctxAcq, sessConn, sessAcq, rb, lastTx>>
  /\ UNCHANGED <<txRet, dropped>>
  /\ UNCHANGED <<cachevars, mapvars, latervars>>

\* TransactionContext::commit (&mut self): COMMIT is sent.
TxCommitStart(t) ==
  /\ pc[t] = "tx"
  /\ sessConn[t] = NoConn
  /\ LanesIdle(t)
  /\ LockFree(ctxConn[t])
  /\ pc' = [pc EXCEPT ![t] = "commit"]
  /\ lastTx' = [lastTx EXCEPT ![ctxConn[t]] = "commit"]
  /\ UNCHANGED <<idle, ctxConn, committed, ctxAcq, lane, laneKind, laneConn, sessConn,
                 sessAcq, rb, stmts>>
  /\ UNCHANGED <<txRet, dropped>>
  /\ UNCHANGED <<cachevars, mapvars, latervars>>

\* self.conn.commit().await?; self.committed = true
TxCommitFinish(t, ok) ==
  /\ pc[t] = "commit"
  /\ pc' = [pc EXCEPT ![t] = "tx"]
  /\ committed' = [committed EXCEPT ![t] = CommittedAfter(ok, @)]
  /\ stmts' = IF ok THEN [stmts EXCEPT ![ctxConn[t]] = AfterTxCall("commit", @)] ELSE stmts
  /\ txRet' = [txRet EXCEPT ![t] = TxResult("commit", ok)]
  /\ UNCHANGED dropped
  /\ UNCHANGED <<idle, ctxConn, ctxAcq, lane, laneKind, laneConn, sessConn, sessAcq, rb,
                 lastTx>>
  /\ UNCHANGED <<cachevars, mapvars, latervars>>

\* TransactionContext::rollback (&mut self): ROLLBACK is sent.
TxRollbackStart(t) ==
  /\ pc[t] = "tx"
  /\ sessConn[t] = NoConn
  /\ LanesIdle(t)
  /\ LockFree(ctxConn[t])
  /\ pc' = [pc EXCEPT ![t] = "rollback"]
  /\ lastTx' = [lastTx EXCEPT ![ctxConn[t]] = "rollback"]
  /\ UNCHANGED <<idle, ctxConn, committed, ctxAcq, lane, laneKind, laneConn, sessConn,
                 sessAcq, rb, stmts>>
  /\ UNCHANGED <<txRet, dropped>>
  /\ UNCHANGED <<cachevars, mapvars, latervars>>

\* let r = self.conn.rollback().await; if r.is_ok() { self.committed = true }
TxRollbackFinish(t, ok) ==
  /\ pc[t] = "rollback"
  /\ pc' = [pc EXCEPT ![t] = "tx"]
  /\ committed' = [committed EXCEPT ![t] = CommittedAfter(ok, @)]
  /\ stmts' = IF ok THEN [stmts EXCEPT ![ctxConn[t]] = AfterTxCall("rollback", @)] ELSE stmts
  /\ txRet' = [txRet EXCEPT ![t] = TxResult("rollback", ok)]
  /\ UNCHANGED dropped
  /\ UNCHANGED <<idle, ctxConn, ctxAcq, lane, laneKind, laneConn, sessConn, sessAcq, rb,
                 lastTx>>
  /\ UNCHANGED <<cachevars, mapvars, latervars>>

\* impl Drop for TransactionContext: the context goes out of scope (no call
\* borrows it any more).
TxDrop(t) ==
  /\ pc[t] = "tx"
  /\ sessConn[t] = NoConn
  /\ LanesIdle(t)
  /\ rb' = IF DropSpawnsRollback(t) THEN [rb EXCEPT ![ctxConn[t]] = "spawned"] ELSE rb
  /\ idle' = IF RollbackTaskHoldsConn(t) THEN idle ELSE idle \cup {ctxConn[t]}
  /\ pc' = [pc EXCEPT ![t] = "idle"]
  /\ ctxConn' = [ctxConn EXCEPT ![t] = NoConn]
  /\ ctxAcq' = [ctxAcq EXCEPT ![t] = 0]
  /\ committed' = [committed EXCEPT ![t] = FALSE]
  /\ lastTx' = IF RollbackTaskHoldsConn(t) THEN lastTx ELSE Forget(lastTx, ctxConn[t])
  /\ stmts' = IF RollbackTaskHoldsConn(t) THEN stmts ELSE Forget(stmts, ctxConn[t])
  /\ dropped' = [dropped EXCEPT ![t] = IF committed[t] THEN "committed" ELSE "uncommitted"]
  /\ txRet' = [txRet EXCEPT ![t] = NoTxRet]
  /\ UNCHANGED <<lane, laneKind, laneConn, sessConn, sessAcq>>
  /\ UNCHANGED <<cachevars, mapvars, latervars>>

\* The spawned task runs: conn.rollback() takes the guard and sends ROLLBACK.
DropRollbackStart(k) ==
  /\ rb[k] = "spawned"
  /\ LockFree(k)
  /\ rb' = [rb EXCEPT ![k] = "running"]
  /\ lastTx' = [lastTx EXCEPT ![k] = DropCall]
  /\ UNCHANGED <<idle, pc, ctxConn, committed, ctxAcq, lane, laneKind, laneConn,
                 sessConn, sessAcq, stmts>>
  /\ UNCHANGED <<txRet, dropped>>
  /\ UNCHANGED <<cachevars, mapvars, latervars>>

\* let _ = conn.rollback().await returns; its result is ignored.
DropRollbackFinish(k, ok) ==
  /\ rb[k] = "running"
  /\ rb' = [rb EXCEPT ![k] = "done"]
  /\ stmts' = IF ok THEN [stmts EXCEPT ![k] = AfterTxCall(DropCall, @)] ELSE stmts
  /\ UNCHANGED <<idle, pc, ctxConn, committed, ctxAcq, lane, laneKind, laneConn,
                 sessConn, sessAcq, lastTx>>
  /\ UNCHANGED <<txRet, dropped>>
  /\ UNCHANGED <<cachevars, mapvars, latervars>>

\* The spawned task ends: its clone of the connection, the last one, is
\* dropped and the connection goes back to the pool.
DropRollbackRelease(k) ==
  /\ rb[k] = "done"
  /\ rb' = [rb EXCEPT ![k] = "none"]
  /\ idle' = idle \cup {k}
  /\ lastTx' = Forget(lastTx, k)
  /\ stmts' = Forget(stmts, k)
  /\ UNCHANGED <<pc, ctxConn, committed, ctxAcq, lane, laneKind, laneConn, sessConn,
                 sessAcq>>
  /\ UNCHANGED <<txRet, dropped>>
  /\ UNCHANGED <<cachevars, mapvars, latervars>>

NextTx ==
  \/ \E t \in Tasks : SessionStart(t)
  \/ \E t \in Tasks : SessionAcquireFail(t)
  \/ \E t \in Tasks, ok \in BOOLEAN : SessionFinish(t, ok)
  \/ \E t \in Tasks : TxBeginStart(t)
  \/ \E t \in Tasks : TxBeginAcquireFail(t)
  \/ \E t \in Tasks, ok \in BOOLEAN : TxBeginFinish(t, ok)
  \/ \E t \in Tasks, i \in Lanes : TxOpCall(t, i)
  \/ \E t \in Tasks, i \in Lanes, kind \in OpKinds : TxOpStart(t, i, kind)
  \/ \E t \in Tasks, i \in Lanes, ok \in BOOLEAN : TxOpFinish(t, i, ok)
  \/ \E t \in Tasks : TxCommitStart(t)
  \/ \E t \in Tasks, ok \in BOOLEAN : TxCommitFinish(t, ok)
  \/ \E t \in Tasks : TxRollbackStart(t)
  \/ \E t \in Tasks, ok \in BOOLEAN : TxRollbackFinish(t, ok)
  \/ \E t \in Tasks : TxDrop(t)
  \/ \E k \in Conns : DropRollbackStart(k)
  \/ \E k \in Conns, ok \in BOOLEAN : DropRollbackFinish(k, ok)
  \/ \E k \in Conns : DropRollbackRelease(k)

\* ------------------------------------------------------ template cache

\* A compiled tree: the content parse_template built it from, and the identity
\* of the Arc that holds it.
NoTree == [src |-> 0, id |-> 0]

NoEntry == [ast |-> NoTree, hash |-> -1]

\* DefaultHasher over template_content: a function of the content alone, into
\* a range smaller than the set of contents.
Hash(c) == c % HashSpace

\* Arc::new(parse_template(template_content)): a new tree.
\* Mutant: the content is compiled into the tree compiled last.
NewTree_InPlace(c) == [src |-> c, id |-> IF compiles = 0 THEN 1 ELSE compiles]

NewTree(c) == [src |-> c, id |-> compiles + 1]

\* Mutant: the stored hash is not compared.
CacheHit_AnyEntry(e, h) == e # NoEntry

\* if let Some(cached) = TEMPLATE_CACHE.get(..) { if cached.content_hash == new_hash
CacheHit(e, h) == e # NoEntry /\ e.hash = h

\* Mutant: the tree of an existing entry is replaced and its hash is left.
InsertedEntry_Torn(old, new) ==
  IF old = NoEntry THEN new ELSE [ast |-> new.ast, hash |-> old.hash]

\* TEMPLATE_CACHE.insert(name, CachedTemplate { ast, content_hash }): the entry
\* is replaced as a whole, under the map's shard lock.
InsertedEntry(old, new) == new

\* render holds the Ref returned by TEMPLATE_CACHE.get(refid) for as long as it
\* renders the included tree, and a Ref keeps the entry's shard of the map
\* read-locked: insert and remove of that name wait.  (Names are taken to lie
\* in different shards.)
ReadLocked(n) ==
  \E i \in 1..(Len(rStack) - 1) :
    /\ rStack[i].at <= Len(rStack[i].nodes)
    /\ rStack[i].nodes[rStack[i].at].node = "Include"
    /\ rStack[i].nodes[rStack[i].at].refid = n

InitCache ==
  /\ cache = [n \in Names |-> NoEntry]
  /\ compiles = 0
  /\ gpc = [p \in Callers |-> "idle"]
  /\ gName = [p \in Callers |-> 0]
  /\ gContent = [p \in Callers |-> 0]
  /\ gRet = [p \in Callers |-> NoTree]
  /\ gHit = [p \in Callers |-> FALSE]

\* get_ast(template_name, template_content) is called; new_hash is computed.
GetAstCall(p, n, c) ==
  /\ gpc[p] \in {"idle", "done"}
  /\ gpc' = [gpc EXCEPT ![p] = "get"]
  /\ gName' = [gName EXCEPT ![p] = n]
  /\ gContent' = [gContent EXCEPT ![p] = c]
  /\ gRet' = [gRet EXCEPT ![p] = NoTree]
  /\ gHit' = [gHit EXCEPT ![p] = FALSE]
  /\ UNCHANGED <<cache, compiles>>
  /\ UNCHANGED <<txvars, mapvars, latervars>>

\* TEMPLATE_CACHE.get(template_name): on a hit the cached tree is returned.
GetAstLookup(p) ==
  /\ gpc[p] = "get"
  /\ IF CacheHit(cache[gName[p]], Hash(gContent[p]))
       THEN /\ gpc' = [gpc EXCEPT ![p] = "done"]
            /\ gRet' = [gRet EXCEPT ![p] = cache[gName[p]].ast]
            /\ gHit' = [gHit EXCEPT ![p] = TRUE]
       ELSE /\ gpc' = [gpc EXCEPT ![p] = "miss"]
            /\ UNCHANGED <<gRet, gHit>>
  /\ UNCHANGED <<cache, compiles, gName, gContent>>
  /\ UNCHANGED <<txvars, mapvars, latervars>>

\* The content is compiled, the entry is inserted and the new tree returned.
GetAstInsert(p) ==
  /\ gpc[p] = "miss"
  /\ compiles < MaxCompiles
  /\ ~ReadLocked(gName[p])
  /\ compiles' = compiles + 1
  /\ cache' = [cache EXCEPT ![gName[p]] =
                 InsertedEntry(@, [ast |-> NewTree(gContent[p]), hash |-> Hash(gContent[p])])]
  /\ gRet' = [gRet EXCEPT ![p] = NewTree(gContent[p])]
  /\ gpc' = [gpc EXCEPT ![p] = "done"]
  /\ UNCHANGED <<gName, gContent, gHit>>
  /\ UNCHANGED <<txvars, mapvars, latervars>>

\* engine::remove_template(template_name)
RemoveTemplate(n) ==
  /\ ~ReadLocked(n)
  /\ cache' = [cache EXCEPT ![n] = NoEntry]
  /\ UNCHANGED <<compiles, gpc, gName, gContent, gRet, gHit>>
  /\ UNCHANGED <<txvars, mapvars, latervars>>

NextCache ==
  \/ \E p \in Callers, n \in Names, c \in Contents : GetAstCall(p, n, c)
  \/ \E p \in Callers : GetAstLookup(p)
  \/ \E p \in Callers : GetAstInsert(p)
  \/ \E n \in Names : RemoveTemplate(n)

\* ------------------------------------- Mapper.create / Mapper.batch_create

\* `id as i64` / `affected as i64`: the cast keeps every value below 2^63; all
\* keys and counts reached here are at most MaxKey and MaxAffected.
AsI64(u) == u

\* The connection goes back to the pool when the Session call returns.  The
\* pool may reset the session state of a returned connection (mysql_async's
\* PoolOpts, left at their default by MysqlDriver::build) or leave it.
Returned(ids, k, reset) == IF reset THEN [ids EXCEPT ![k] = 0] ELSE ids

\* conn.last_insert_id().unwrap_or(0) on connection k
LastInsertId(k) == lastId[k]

\* `?` on a failed Session call or a failed deserialize: the call returns Err.
AfterFailure == "err"

InitMapper ==
  /\ mOp = "none"
  /\ mpc = "idle"
  /\ mGen = FALSE
  /\ mDeOk = TRUE
  /\ mN = 0
  /\ mI = 0
  /\ mConn = NoConn
  /\ mAffected = 0
  /\ mCalls = <<>>
  /\ mKeys = <<>>
  /\ mAffs = <<>>
  /\ mResults = <<>>
  /\ lastId = [k \in Conns |-> 0]
  /\ nextKey = 1
  /\ rows = {}

\* Mapper::create / Mapper::batch_create is called: get_sql_mapper and the
\* entry's content are looked up; batch_create over no input returns at once.
MapperCall(op, n, gen, deOk, found) ==
  /\ mpc = "idle"
  /\ op = "create" => n = 1
  /\ mOp' = op
  /\ mGen' = gen
  /\ mDeOk' = deOk
  /\ mN' = n
  /\ mI' = IF found /\ n > 0 THEN 1 ELSE 0
  /\ mpc' = IF ~found THEN "err" ELSE IF n = 0 THEN "ok" ELSE "next"
  /\ mCalls' = <<>>
  /\ mKeys' = <<>>
  /\ mAffs' = <<>>
  /\ mResults' = <<>>
  /\ UNCHANGED <<mConn, mAffected, lastId, nextKey, rows, idle>>
  /\ UNCHANGED <<poolusers, cachevars, latervars>>

\* R::deserialize of the element's value, results.push, and on to the next
\* element or the return.
Collect(v) ==
  IF mDeOk
    THEN /\ mResults' = Append(mResults, v)
         /\ mpc' = IF mI < mN THEN "next" ELSE "ok"
         /\ mI' = IF mI < mN THEN mI + 1 ELSE mI
    ELSE /\ mpc' = AfterFailure
         /\ UNCHANGED <<mI, mResults>>

\* session.execute(sql, arg): no TX_CONTEXT, so a connection is drawn from the
\* pool and the statement is sent on it.
MapperExecuteStart(k) ==
  /\ mpc = "next"
  /\ k \in idle
  /\ idle' = idle \ {k}
  /\ mConn' = k
  /\ mCalls' = Append(mCalls, [call |-> "execute", elem |-> mI])
  /\ mpc' = "execute"
  /\ UNCHANGED <<mOp, mGen, mDeOk, mN, mI, mAffected, mKeys, mAffs, mResults,
                 lastId, nextKey, rows>>
  /\ UNCHANGED <<poolusers, cachevars, latervars>>

\* session.execute: pool.connection() fails.
MapperExecuteAcquireFail ==
  /\ mpc = "next"
  /\ mCalls' = Append(mCalls, [call |-> "execute", elem |-> mI])
  /\ mpc' = AfterFailure
  /\ UNCHANGED <<mOp, mGen, mDeOk, mN, mI, mConn, mAffected, mKeys, mAffs, mResults,
                 lastId, nextKey, rows, idle>>
  /\ UNCHANGED <<poolusers, cachevars, latervars>>

\* conn.execute returns; the connection is dropped.  A successful insert adds
\* a row under the next key and reports its affected count.
MapperExecuteFinish(ok, aff, reset) ==
  /\ mpc = "execute"
  /\ idle' = idle \cup {mConn}
  /\ mConn' = NoConn
  /\ IF ok
       THEN /\ nextKey <= MaxKey
            /\ rows' = rows \cup {nextKey}
            /\ nextKey' = nextKey + 1
            /\ lastId' = Returned([lastId EXCEPT ![mConn] = nextKey], mConn, reset)
            /\ mKeys' = Append(mKeys, nextKey)
            /\ mAffs' = Append(mAffs, aff)
            /\ mAffected' = aff
            /\ IF mGen
                 THEN /\ mpc' = "key"
                      /\ UNCHANGED <<mI, mResults>>
                 ELSE Collect(AsI64(aff))
       ELSE /\ aff = 1
            /\ mpc' = AfterFailure
            /\ lastId' = Returned(lastId, mConn, reset)
            /\ UNCHANGED <<rows, nextKey, mI, mKeys, mAffs, mAffected, mResults>>
  /\ UNCHANGED <<mOp, mGen, mDeOk, mN, mCalls>>
  /\ UNCHANGED <<poolusers, cachevars, latervars>>

\* session.last_insert_id(): no TX_CONTEXT, so a connection is drawn from the
\* pool.
MapperKeyStart(k) ==
  /\ mpc = "key"
  /\ k \in idle
  /\ idle' = idle \ {k}
  /\ mConn' = k
  /\ mCalls' = Append(mCalls, [call |-> "last_insert_id", elem |-> mI])
  /\ mpc' = "last_insert_id"
  /\ UNCHANGED <<mOp, mGen, mDeOk, mN, mI, mAffected, mKeys, mAffs, mResults,
                 lastId, nextKey, rows>>
  /\ UNCHANGED <<poolusers, cachevars, latervars>>

\* session.last_insert_id(): pool.connection() fails.
MapperKeyAcquireFail ==
  /\ mpc = "key"
  /\ mCalls' = Append(mCalls, [call |-> "last_insert_id", elem |-> mI])
  /\ mpc' = AfterFailure
  /\ UNCHANGED <<mOp, mGen, mDeOk, mN, mI, mConn, mAffected, mKeys, mAffs, mResults,
                 lastId, nextKey, rows, idle>>
  /\ UNCHANGED <<poolusers, cachevars, latervars>>

\* conn.last_insert_id() answers; the connection is dropped.
MapperKeyFinish(reset) ==
  /\ mpc = "last_insert_id"
  /\ idle' = idle \cup {mConn}
  /\ mConn' = NoConn
  /\ lastId' = Returned(lastId, mConn, reset)
  /\ Collect(AsI64(LastInsertId(mConn)))
  /\ UNCHANGED <<mOp, mGen, mDeOk, mN, mAffected, mCalls, mKeys, mAffs, nextKey, rows>>
  /\ UNCHANGED <<poolusers, cachevars, latervars>>

\* The call has returned Ok(..) or Err(..) to its caller.
MapperReturn ==
  /\ mpc \in {"ok", "err"}
  /\ mpc' = "idle"
  /\ UNCHANGED <<mOp, mGen, mDeOk, mN, mI, mConn, mAffected, mCalls, mKeys, mAffs,
                 mResults, lastId, nextKey, rows, idle>>
  /\ UNCHANGED <<poolusers, cachevars, latervars>>

\* Another task inserts through the same pool: Session::execute on an idle
\* connection, from acquire to release.
OtherInsert(k, reset) ==
  /\ k \in idle
  /\ nextKey <= MaxKey
  /\ rows' = rows \cup {nextKey}
  /\ nextKey' = nextKey + 1
  /\ lastId' = Returned([lastId EXCEPT ![k] = nextKey], k, reset)
  /\ UNCHANGED <<mOp, mpc, mGen, mDeOk, mN, mI, mConn, mAffected, mCalls, mKeys, mAffs,
                 mResults, idle>>
  /\ UNCHANGED <<poolusers, cachevars, latervars>>

NextMapper ==
  \/ \E op \in {"create", "batch_create"}, n \in 0..MaxBatch, gen, deOk, found \in BOOLEAN :
       MapperCall(op, n, gen, deOk, found)
  \/ \E k \in Conns : MapperExecuteStart(k)
  \/ MapperExecuteAcquireFail
  \/ \E ok \in BOOLEAN, aff \in 1..MaxAffected, reset \in BOOLEAN :
       MapperExecuteFinish(ok, aff, reset)
  \/ \E k \in Conns : MapperKeyStart(k)
  \/ MapperKeyAcquireFail
  \/ \E reset \in BOOLEAN : MapperKeyFinish(reset)
  \/ MapperReturn
  \/ \E k \in Conns, reset \in BOOLEAN : OtherInsert(k, reset)

\* ------------------- Session::execute / Session::query, statement by statement
\* Spec follows a Session call from its acquire to its return; here every step
\* of a call is followed, with what it asked of the pool, what it sent to the
\* backend and what it returned.

NoErr == [variant |-> "none", msg |-> 0]

\* DbError::Database(e.to_string()): what the pool and the backend raise
DbErrors == {[variant |-> "Database", msg |-> m] : m \in 1..NumErrors}

\* DbError::General(e.to_string()) of map_rows
MapRowsError == [variant |-> "General", msg |-> 0]

NoRet == [tag |-> "none", err |-> NoErr]

Ok == [tag |-> "ok", err |-> NoErr]

Err(e) == [tag |-> "err", err |-> e]

\* Mutant: a failed acquire or statement is tried once more.
OnSessionError_Retry(attempts) == IF attempts < 2 THEN "retry" ELSE "return"

\* `?` on pool.connection() and on the statement's result: the error leaves
\* the function.
OnSessionError(attempts) == "return"

\* `?` with From<DbError> for DbError, and `result` returned as it is
Propagated(e) == e

InitSessionCall ==
  /\ scPc = [t \in Tasks |-> "idle"]
  /\ scKind = [t \in Tasks |-> "none"]
  /\ scConn = [t \in Tasks |-> NoConn]
  /\ scAcquires = [t \in Tasks |-> 0]
  /\ scStatements = [t \in Tasks |-> 0]
  /\ scFail = [t \in Tasks |-> NoErr]
  /\ scRet = [t \in Tasks |-> NoRet]

\* Session::execute / Session::query is called; TX_CONTEXT.try_with finds no
\* context and the template is rendered.
SessionCall(t, kind) ==
  /\ scPc[t] \in {"idle", "returned"}
  /\ TX_CONTEXT(t) = NoCtx
  /\ scPc' = [scPc EXCEPT ![t] = "called"]
  /\ scKind' = [scKind EXCEPT ![t] = kind]
  /\ scAcquires' = [scAcquires EXCEPT ![t] = 0]
  /\ scStatements' = [scStatements EXCEPT ![t] = 0]
  /\ scFail' = [scFail EXCEPT ![t] = NoErr]
  /\ scRet' = [scRet EXCEPT ![t] = NoRet]
  /\ UNCHANGED <<scConn, idle>>
  /\ UNCHANGED sessionFrame

\* self.pool.connection().await succeeds.
SessionAcquire(t, k) ==
  /\ scPc[t] = "called"
  /\ k \in idle
  /\ idle' = idle \ {k}
  /\ scConn' = [scConn EXCEPT ![t] = k]
  /\ scAcquires' = [scAcquires EXCEPT ![t] = @ + 1]
  /\ scPc' = [scPc EXCEPT ![t] = "acquired"]
  /\ UNCHANGED <<scKind, scStatements, scFail, scRet>>
  /\ UNCHANGED sessionFrame

\* self.pool.connection().await fails with e.
SessionAcquireError(t, e) ==
  /\ scPc[t] = "called"
  /\ scAcquires' = [scAcquires EXCEPT ![t] = @ + 1]
  /\ scFail' = [scFail EXCEPT ![t] = e]
  /\ IF OnSessionError(scAcquires'[t]) = "retry"
       THEN UNCHANGED <<scPc, scRet>>
       ELSE /\ scPc' = [scPc EXCEPT ![t] = "returned"]
            /\ scRet' = [scRet EXCEPT ![t] = Err(Propagated(e))]
  /\ UNCHANGED <<scKind, scConn, scStatements, idle>>
  /\ UNCHANGED sessionFrame

\* conn.execute(..) / conn.query(..) is sent on the acquired connection.
SessionStatement(t) ==
  /\ scPc[t] = "acquired"
  /\ scStatements' = [scStatements EXCEPT ![t] = @ + 1]
  /\ scPc' = [scPc EXCEPT ![t] = "statement"]
  /\ UNCHANGED <<scKind, scConn, scAcquires, scFail, scRet, idle>>
  /\ UNCHANGED sessionFrame

\* The statement succeeded: execute returns the count; query maps the rows
\* (map_rows can fail).  conn is dropped.
SessionStatementOk(t, mapped) ==
  /\ scPc[t] = "statement"
  /\ scKind[t] = "execute" => mapped
  /\ idle' = idle \cup {scConn[t]}
  /\ scConn' = [scConn EXCEPT ![t] = NoConn]
  /\ scPc' = [scPc EXCEPT ![t] = "returned"]
  /\ scRet' = [scRet EXCEPT ![t] = IF mapped THEN Ok ELSE Err(MapRowsError)]
  /\ UNCHANGED <<scKind, scAcquires, scStatements, scFail>>
  /\ UNCHANGED sessionFrame

\* The statement failed with e.  conn is dropped.
SessionStatementError(t, e) ==
  /\ scPc[t] = "statement"
  /\ idle' = idle \cup {scConn[t]}
  /\ scConn' = [scConn EXCEPT ![t] = NoConn]
  /\ scFail' = [scFail EXCEPT ![t] = e]
  /\ IF OnSessionError(scStatements[t]) = "retry"
       THEN /\ scPc' = [scPc EXCEPT ![t] = "called"]
            /\ UNCHANGED scRet
       ELSE /\ scPc' = [scPc EXCEPT ![t] = "returned"]
            /\ scRet' = [scRet EXCEPT ![t] = Err(Propagated(e))]
  /\ UNCHANGED <<scKind, scAcquires, scStatements>>
  /\ UNCHANGED sessionFrame

NextSessionCall ==
  \/ \E t \in Tasks, kind \in {"execute", "query"} : SessionCall(t, kind)
  \/ \E t \in Tasks, k \in Conns : SessionAcquire(t, k)
  \/ \E t \in Tasks, e \in DbErrors : SessionAcquireError(t, e)
  \/ \E t \in Tasks : SessionStatement(t)
  \/ \E t \in Tasks, mapped \in BOOLEAN : SessionStatementOk(t, mapped)
  \/ \E t \in Tasks, e \in DbErrors : SessionStatementError(t, e)

\* The initial state of everything but the render context.
\* No render has returned yet.
NoRender == [tree |-> <<>>, sql |-> <<>>, params |-> <<>>, seen |-> <<>>]

\* No render has been started.
InitRender ==
  /\ rStatus = "idle"
  /\ rTree = <<>>
  /\ rStack = <<>>
  /\ rSql = <<>>
  /\ rParams = <<>>
  /\ rCount = 0
  /\ rSeen = <<>>
  /\ rFirst = NoRender

\* No document, no find_mapper call yet.
NoDoc == [nodes |-> <<>>, ns |-> 0, wellFormed |-> TRUE]

NoFind == [fn |-> "none"]

\* A Mapper operation has not returned.
NoOutcome == [variant |-> "none", msg |-> ""]

NoSqlId == <<>>

InitLoader ==
  /\ store = [ns \in Namespaces |-> [i \in Ids |-> <<>>]]
  /\ loads = 0
  /\ lDoc = NoDoc
  /\ lRet = "none"
  /\ fCall = NoFind

InitOps ==
  /\ oOp = "none"
  /\ oPc = "idle"
  /\ oId = NoSqlId
  /\ oType = 0
  /\ oArgs = 0
  /\ oAcquires = 0
  /\ oStatements = 0
  /\ oRows = 0
  /\ oRet = NoOutcome
  /\ oMapper = [some |-> FALSE]

InitParser ==
  /\ pPc = "idle"
  /\ pTemplate = <<>>
  /\ pPos = 0
  /\ pNodes = <<>>
  /\ pTags = <<>>
  /\ pOut = <<>>

InitBase ==
  /\ InitTx /\ InitCache /\ InitMapper /\ InitSessionCall /\ InitRender
  /\ InitLoader /\ InitOps /\ InitParser

\* ------------------------------------------------ Value and render Context

\* A number: big * 2^53 + d.  The integer variants other than I64 hold no
\* number as large as 2^53; an F64 at or above 2^53 holds even numbers only.
Num(big, d) == [big |-> big, d |-> d]

Null == [t |-> "Null"]

Bool(b) == [t |-> "Bool", b |-> b]

I16(n) == [t |-> "I16", n |-> Num(FALSE, n)]

I32(n) == [t |-> "I32", n |-> Num(FALSE, n)]

U8(n) == [t |-> "U8", n |-> Num(FALSE, n)]

I64(big, n) == [t |-> "I64", n |-> Num(big, n)]

F64(big, n) == [t |-> "F64", n |-> Num(big, n)]

Str(s) == [t |-> "Str", s |-> s]

List(items) == [t |-> "List", items |-> items]

Map(m) == [t |-> "Map", m |-> m]

\* A key is its text split at the dots: "a.b" is <<"a", "b">>, "a" is <<"a">>.
Segments == {"a", "b"}

Keys == UNION {[1..n -> Segments] : n \in 1..MaxDepth}

None == [v |-> Null, some |-> FALSE]

Some(v) == [v |-> v, some |-> TRUE]

Last(s) == s[Len(s)]

Front(s) == SubSeq(s, 1, Len(s) - 1)

MaxOf(S) == CHOOSE i \in S : \A j \in S : j <= i

MinOf(S) == CHOOSE i \in S : \A j \in S : i <= j

\* Mutant: the locals are searched from the bottom of the stack.
Innermost_First(hits) == MinOf(hits)

\* self.locals.iter().rev().find(..): the binding pushed last
Innermost(hits) == MaxOf(hits)

\* Context::get_from_scope
GetFromScope(root, locals, key) ==
  LET hits == {i \in DOMAIN locals : locals[i].k = key}
  IN IF hits # {}
       THEN Some(locals[Innermost(hits)].v)
       ELSE IF root.t = "Map" /\ key \in DOMAIN root.m
              THEN Some(root.m[key])
              ELSE None

\* Mutant: a value that is not a Map is returned where the walk stops.
StepInto_Lenient(cur, part) ==
  IF cur.t = "Map" /\ <<part>> \in DOMAIN cur.m THEN Some(cur.m[<<part>>]) ELSE Some(cur)

\* One step of resolve_path: Value::Map(m) => m.get(part)?, _ => return None
StepInto(cur, part) ==
  IF cur.t = "Map" /\ <<part>> \in DOMAIN cur.m THEN Some(cur.m[<<part>>]) ELSE None

\* Context::resolve_path
RECURSIVE ResolvePath(_, _)
ResolvePath(current, path) ==
  IF path = <<>>
    THEN Some(current)
    ELSE LET next == StepInto(current, Head(path))
         IN IF next.some THEN ResolvePath(next.v, Tail(path)) ELSE None

\* Context::lookup
Lookup(root, locals, key) ==
  LET direct == GetFromScope(root, locals, key)
  IN IF direct.some
       THEN direct.v
       ELSE IF Len(key) > 1
              THEN LET head == GetFromScope(root, locals, <<Head(key)>>)
                       target == IF head.some THEN ResolvePath(head.v, Tail(key)) ELSE None
                   IN IF target.some THEN target.v ELSE Null
              ELSE Null

\* Values bound in the contexts the lookups are tried on.
Nested == Map([k \in {<<"b">>} |-> Map([j \in {<<"a">>} |-> Str("deep")])])

LookupValues == {Null, I64(FALSE, 1), Map([k \in {<<"b">>} |-> I64(FALSE, 2)]), Nested}

LookupRootKeys == {<<"a">>, <<"b">>, <<"a", "b">>}

LookupRoots ==
  {Str("scalar root")} \cup
  {Map(m) : m \in UNION {[D -> LookupValues] : D \in SUBSET LookupRootKeys}}

LookupLocals ==
  {[k |-> k, v |-> v] : k \in {<<"a">>, <<"a", "b">>},
                        v \in {I64(FALSE, 3), Map([k \in {<<"b">>} |-> Null])}}

NoCall == [fn |-> "none"]

InitContext ==
  /\ ctxRoot = Map(<<>>)
  /\ ctxLocals = <<>>
  /\ lastCall = NoCall

\* The contexts of the lookup runs: any of the sample roots, no local yet.
InitLookup ==
  /\ ctxRoot \in LookupRoots
  /\ ctxLocals = <<>>
  /\ lastCall = NoCall
  /\ InitBase

\* Context::push
ContextPush(b) ==
  /\ Len(ctxLocals) < MaxLocals
  /\ ctxLocals' = Append(ctxLocals, b)
  /\ lastCall' = NoCall
  /\ UNCHANGED ctxRoot
  /\ UNCHANGED contextFrame

\* Context::pop (Vec::pop of an empty stack does nothing)
ContextPop ==
  /\ ctxLocals' = IF ctxLocals = <<>> THEN <<>> ELSE Front(ctxLocals)
  /\ lastCall' = NoCall
  /\ UNCHANGED ctxRoot
  /\ UNCHANGED contextFrame

\* ctx.lookup(key)
LookupCall(key) ==
  /\ lastCall' = [fn |-> "lookup", key |-> key, out |-> Lookup(ctxRoot, ctxLocals, key)]
  /\ UNCHANGED <<ctxRoot, ctxLocals>>
  /\ UNCHANGED contextFrame

NextLookup ==
  \/ \E b \in LookupLocals : ContextPush(b)
  \/ ContextPop
  \/ \E key \in Keys : LookupCall(key)

\* ------------------------------------------------- eval_atom and eval_expr
\* A test expression is its text cut into tokens: names, literals, the six
\* comparison operators and the separators " and " and " or ".

NameTok(key) == [name |-> key]

WordTok(w) == [word |-> w]

QuotedTok(s) == [quoted |-> s]

IntTok(big, d) == [int |-> Num(big, d)]

OpTok(op) == [op |-> op]

SepTok(s) == [sep |-> s]

IsOp(tok, op) == "op" \in DOMAIN tok /\ tok.op = op

IsSep(tok, s) == "sep" \in DOMAIN tok /\ tok.sep = s

\* f64 has 53 bits of mantissa: from 2^53 on only even numbers exist, and a
\* number halfway between two of them goes to the one whose mantissa is even.
RoundToF64(n) ==
  IF n.big /\ n.d % 2 = 1
    THEN Num(TRUE, IF (n.d - 1) % 4 = 0 THEN n.d - 1 ELSE n.d + 1)
    ELSE n

\* to_f64
ToF64(v) ==
  IF v.t \in {"I16", "I32", "I64", "U8"} THEN Some(RoundToF64(v.n))
  ELSE IF v.t = "F64" THEN Some(v.n)
  ELSE None

\* l < r on f64 values that hold whole numbers
F64Less(l, r) == (~l.big /\ r.big) \/ (l.big = r.big /\ l.d < r.d)

\* (l - r).abs() < f64::EPSILON: two whole numbers differ by 0 or by 1 or more
F64Same(l, r) == l = r

\* The operator eval_atom splits at: the first of !=, ==, >=, <=, >, < that
\* occurs in the text, at its first occurrence.
OpOrder == <<"!=", "==", ">=", "<=", ">", "<">>

OpsIn(tokens) == {i \in DOMAIN OpOrder : \E j \in DOMAIN tokens : IsOp(tokens[j], OpOrder[i])}

SplitOp(tokens) == OpOrder[MinOf(OpsIn(tokens))]

SplitAt(tokens) == MinOf({j \in DOMAIN tokens : IsOp(tokens[j], SplitOp(tokens))})

\* ctx.lookup(text) of a piece of an atom: the piece is a key only when it is
\* a single name; any other text is bound in none of the contexts here.
LookupText(root, locals, tokens) ==
  IF Len(tokens) = 1 /\ "name" \in DOMAIN tokens[1]
    THEN Lookup(root, locals, tokens[1].name)
    ELSE Null

\* The right side of a comparison: null, true, false, a quoted string, an
\* integer, else a context lookup.
RightValue(root, locals, tokens) ==
  IF Len(tokens) = 1 /\ "word" \in DOMAIN tokens[1]
    THEN (CASE tokens[1].word = "null" -> Null
            [] tokens[1].word = "true" -> Bool(TRUE)
            [] tokens[1].word = "false" -> Bool(FALSE))
  ELSE IF Len(tokens) = 1 /\ "quoted" \in DOMAIN tokens[1] THEN Str(tokens[1].quoted)
  ELSE IF Len(tokens) = 1 /\ "int" \in DOMAIN tokens[1] THEN [t |-> "I64", n |-> tokens[1].int]
  ELSE LookupText(root, locals, tokens)

\* Mutant: anything that is not Null is true.
Truthy_NotNull(v) == v # Null

\* !matches!(val, Value::Null | Value::Bool(false))
Truthy(v) == v # Null /\ v # Bool(FALSE)

\* The match on op at the end of eval_atom.
Compare(op, left, right) ==
  LET l == ToF64(left)
      r == ToF64(right)
      both == l.some /\ r.some
  IN CASE op = "==" -> IF both THEN F64Same(l.v, r.v) ELSE left = right
       [] op = "!=" -> IF both THEN ~F64Same(l.v, r.v) ELSE left # right
       [] op = ">" -> both /\ F64Less(r.v, l.v)
       [] op = ">=" -> both /\ ~F64Less(l.v, r.v)
       [] op = "<" -> both /\ F64Less(l.v, r.v)
       [] op = "<=" -> both /\ ~F64Less(r.v, l.v)

\* eval_atom
EvalAtom(root, locals, tokens) ==
  IF tokens = <<>> THEN FALSE
  ELSE IF OpsIn(tokens) = {} THEN Truthy(LookupText(root, locals, tokens))
  ELSE LET at == SplitAt(tokens)
           left == LookupText(root, locals, SubSeq(tokens, 1, at - 1))
           right == RightValue(root, locals, SubSeq(tokens, at + 1, Len(tokens)))
       IN Compare(SplitOp(tokens), left, right)

\* str::split on a separator: the pieces between its occurrences.
RECURSIVE SplitOn(_, _)
SplitOn(tokens, s) ==
  LET at == {j \in DOMAIN tokens : IsSep(tokens[j], s)}
  IN IF at = {}
       THEN <<tokens>>
       ELSE <<SubSeq(tokens, 1, MinOf(at) - 1)>>
              \o SplitOn(SubSeq(tokens, MinOf(at) + 1, Len(tokens)), s)

\* Mutant: one true atom is enough for an OR-part.
AndSatisfied_Any(root, locals, atoms) ==
  \E i \in DOMAIN atoms : EvalAtom(root, locals, atoms[i])

\* The inner loop of eval_expr: and_satisfied
AndSatisfied(root, locals, atoms) ==
  \A i \in DOMAIN atoms : EvalAtom(root, locals, atoms[i])

\* eval_expr
EvalExpr(root, locals, tokens) ==
  LET orParts == SplitOn(tokens, "or")
  IN \E i \in DOMAIN orParts : AndSatisfied(root, locals, SplitOn(orParts[i], "and"))

\* The values bound to the names a and b in the contexts of the evaluations.
Big(d) == I64(TRUE, d)

EvalValues ==
  {Null, Bool(FALSE), Bool(TRUE), I16(1), I32(1), I64(FALSE, 1), U8(1), I64(FALSE, 0),
   F64(FALSE, 1), I32(2), Str(""), Str("x"), List(<<>>), Map(<<>>)}
  \cup {Big(d) : d \in 0..MaxBigOffset}

EvalRoots ==
  {Map(m) : m \in UNION {[D -> EvalValues] : D \in SUBSET {<<"a">>, <<"b">>}}}

Operands == {<<NameTok(<<"a">>)>>, <<NameTok(<<"b">>)>>}

RightSides ==
  Operands \cup
  {<<WordTok("null")>>, <<WordTok("true")>>, <<WordTok("false")>>, <<QuotedTok("x")>>,
   <<QuotedTok("")>>, <<IntTok(FALSE, 1)>>, <<IntTok(TRUE, 1)>>}

Comparisons ==
  {l \o <<OpTok(OpOrder[i])>> \o r : l \in Operands, i \in DOMAIN OpOrder, r \in RightSides}

\* the atoms evaluated one by one
Atoms == {<<>>} \cup Operands \cup Comparisons

\* the atoms the expressions are built from
ExprAtoms == {<<>>, <<NameTok(<<"a">>)>>, <<NameTok(<<"b">>)>>,
              <<NameTok(<<"a">>), OpTok("=="), IntTok(FALSE, 1)>>}

RECURSIVE ExprsOf(_)
ExprsOf(n) ==
  IF n = 1 THEN ExprAtoms
  ELSE {e \o <<SepTok(s)>> \o a : e \in ExprsOf(n - 1), s \in {"and", "or"}, a \in ExprAtoms}

Exprs == UNION {ExprsOf(n) : n \in 1..MaxAtoms}

\* The contexts of the evaluation runs; each run evaluates one atom or one
\* expression (an evaluation leaves the context as it was).
InitEval ==
  /\ ctxRoot \in EvalRoots
  /\ ctxLocals = <<>>
  /\ lastCall = NoCall
  /\ InitBase

\* eval_atom(atom, ctx)
EvalAtomCall(atom) ==
  /\ lastCall = NoCall
  /\ lastCall' = [fn |-> "eval_atom", out |-> EvalAtom(ctxRoot, ctxLocals, atom), atom |-> atom]
  /\ UNCHANGED <<ctxRoot, ctxLocals>>
  /\ UNCHANGED contextFrame

\* eval_expr(test, ctx)
EvalExprCall(test) ==
  /\ lastCall = NoCall
  /\ lastCall' = [fn |-> "eval_expr", out |-> EvalExpr(ctxRoot, ctxLocals, test), test |-> test]
  /\ UNCHANGED <<ctxRoot, ctxLocals>>
  /\ UNCHANGED contextFrame

NextEval ==
  \/ \E atom \in Atoms : EvalAtomCall(atom)
  \/ \E test \in Exprs : EvalExprCall(test)

\* ------------------------------------------------------------ render::render
\* One render at a time is followed node by node, with the stack of render()
\* calls it is in; the cache is changed by other threads between its steps.

\* AstNode.  (The fields of every record are written in the order in which
\* TLC keeps them.)
Text(t) == [node |-> "Text", text |-> t]

Var(name) == [node |-> "Var", name |-> name]

Include(refid) == [node |-> "Include", refid |-> refid]

If(test, body) == [node |-> "If", test |-> test, body |-> body]

For(item, collection, open, sep, close, body) ==
  [node |-> "For", sep |-> sep, body |-> body, item |-> item, collection |-> collection,
   open |-> open, close |-> close]

\* What buf.sql is made of: the literals pushed, and the placeholders the
\* driver returned, each with the sequence index and name it was asked with.
Literal(t) == [text |-> t]

Placeholder(seq, name) == [name |-> name, ph |-> seq]

\* parse_template(content) of the sample contents: content 1 is a fragment
\* with a variable, content 2 refers to a loop's item, content 3 includes the
\* template named IncludeName.
IncludeName == 1

ParseTemplate(c) ==
  CASE c = 1 -> <<Text("x = "), Var(<<"a">>)>>
    [] c = 2 -> <<Var(<<"i">>)>>
    [] c = 3 -> <<Text("inc "), Include(IncludeName)>>
    [] OTHER -> <<Text("t")>>

\* The trees rendered.
IdsLoop(body) == For(<<"i">>, <<"ids">>, "(", ",", ")", body)

SampleTrees ==
  { <<Text("select "), Var(<<"a">>), If(<<NameTok(<<"a">>)>>, <<Text(" and "), Var(<<"b">>)>>),
      If(<<NameTok(<<"b">>)>>, <<Var(<<"a">>)>>), Var(<<"a">>)>>,
    <<IdsLoop(<<Var(<<"i">>), Var(<<"a">>)>>), Var(<<"a">>)>>,
    <<For(<<"i">>, <<"none">>, "(", ",", ")", <<Var(<<"i">>)>>),
      For(<<"i">>, <<"a">>, "(", ",", ")", <<Var(<<"i">>)>>), Text("end")>>,
    <<Include(IncludeName), Var(<<"a">>)>>,
    <<IdsLoop(<<Include(IncludeName)>>), Var(<<"a">>)>>,
    <<Var(<<"ids">>)>>,
    <<IdsLoop(<<IdsLoop(<<Var(<<"i">>)>>), Var(<<"i">>)>>), Var(<<"a">>)>> }

RenderRoots ==
  { Map((<<"a">> :> I64(FALSE, 1)) @@ (<<"ids">> :> List(<<I64(FALSE, 10), I64(FALSE, 20)>>))
          @@ (<<"none">> :> List(<<>>))),
    Map((<<"a">> :> Str("x")) @@ (<<"b">> :> Bool(TRUE)) @@ (<<"ids">> :> List(<<I64(FALSE, 7)>>))) }

\* A call of render(nodes, ctx, buf): the node it is at and, while it is in a
\* For node, the list and the number of the iteration.
Frame(nodes) == [at |-> 1, nodes |-> nodes, iter |-> 0, arr |-> <<>>]

Top == rStack[Len(rStack)]

Node == Top.nodes[Top.at]

At(kind) ==
  /\ rStatus = "running"
  /\ Top.at <= Len(Top.nodes)
  /\ Node.node = kind

\* `for node in nodes` goes on to the next node.
Advanced == [rStack EXCEPT ![Len(rStack)].at = @ + 1]

\* render(body, ctx, buf) is called from the node the top frame is at.
Called(stack, nodes) == Append(stack, Frame(nodes))

\* Mutant: the count of the previous buffer is carried over.
ParamCountAtStart_Carried(prev) == prev

\* RenderBuffer { .., param_count: 0 }
ParamCountAtStart(prev) == 0

\* Mutant: placeholders are numbered from 0.
NextParamCount_FromZero(count) == IF count = 0 THEN 0 ELSE count + 1

\* buf.param_count += 1
NextParamCount(count) == count + 1

\* Mutant: a missing include ends the render.
AfterMissingInclude_Abort == "failed"

\* `if let Some(cached) = TEMPLATE_CACHE.get(refid)` without an else
AfterMissingInclude == "running"

\* Mutant: the separator is written after every element.
SepBefore_Always(i) == TRUE

\* `if i > 0 { buf.sql.push_str(sep) }`, i counting the elements from 0
SepBefore(i) == i > 0

\* `if eval_expr(test, ctx)`
IfTaken(root, locals, test) == EvalExpr(root, locals, test)

\* Mutant: the binding of an iteration stays on the stack.
Popped_Kept(locals) == locals

\* ctx.pop() after render(body, ..) of an iteration
Popped(locals) == Front(locals)

\* A buffer and a context are made and render(&ast, &mut ctx, &mut buf) is
\* called on a compiled tree.
RenderStart(nodes) ==
  /\ rStatus \in {"idle", "done"}
  /\ rStatus' = "running"
  /\ rTree' = nodes
  /\ rStack' = <<Frame(nodes)>>
  /\ rSql' = <<>>
  /\ rParams' = <<>>
  /\ rCount' = ParamCountAtStart(rCount)
  /\ rSeen' = <<>>
  /\ ctxLocals' = <<>>
  /\ UNCHANGED <<rFirst, ctxRoot, lastCall>>
  /\ UNCHANGED renderFrame

\* AstNode::Text(t)
RenderText ==
  /\ At("Text")
  /\ rSql' = Append(rSql, Literal(Node.text))
  /\ rStack' = Advanced
  /\ UNCHANGED <<rStatus, rTree, rParams, rCount, rSeen, rFirst, ctxvars>>
  /\ UNCHANGED renderFrame

\* AstNode::Var(name)
RenderVar ==
  /\ At("Var")
  /\ rParams' = Append(rParams, [v |-> Lookup(ctxRoot, ctxLocals, Node.name), name |-> Node.name])
  /\ rCount' = NextParamCount(rCount)
  /\ rSql' = Append(rSql, Placeholder(rCount', Node.name))
  /\ rStack' = Advanced
  /\ UNCHANGED <<rStatus, rTree, rSeen, rFirst, ctxvars>>
  /\ UNCHANGED renderFrame

\* AstNode::Include { refid }: the cache is read now.  A chain of includes
\* MaxStack calls deep is not followed further: the runs stop there, as the
\* program does when a cycle of includes has used up its stack.
RenderInclude ==
  /\ At("Include")
  /\ rSeen' = Append(rSeen, cache[Node.refid].ast)
  /\ IF cache[Node.refid] # NoEntry
       THEN IF Len(rStack) < MaxStack
              THEN /\ rStack' = Called(rStack, ParseTemplate(cache[Node.refid].ast.src))
                   /\ UNCHANGED rStatus
              ELSE /\ rStatus' = "overflow"
                   /\ UNCHANGED rStack
       ELSE /\ rStack' = Advanced
            /\ rStatus' = AfterMissingInclude
  /\ UNCHANGED <<rTree, rSql, rParams, rCount, rFirst, ctxvars>>
  /\ UNCHANGED renderFrame

\* AstNode::If { test, body }
RenderIf ==
  /\ At("If")
  /\ rStack' = IF IfTaken(ctxRoot, ctxLocals, Node.test) THEN Called(rStack, Node.body) ELSE Advanced
  /\ UNCHANGED <<rStatus, rTree, rSql, rParams, rCount, rSeen, rFirst, ctxvars>>
  /\ UNCHANGED renderFrame

\* AstNode::For { .. }: the collection is looked up; for a non-empty list the
\* open literal is written and the first iteration starts.
RenderFor ==
  /\ At("For")
  /\ Top.iter = 0
  /\ LET coll == Lookup(ctxRoot, ctxLocals, Node.collection)
     IN IF coll.t # "List" \/ coll.items = <<>>
          THEN /\ rStack' = Advanced
               /\ UNCHANGED <<rSql, ctxLocals>>
          ELSE /\ rSql' = Append(rSql, Literal(Node.open))
                         \o (IF SepBefore(0) THEN <<Literal(Node.sep)>> ELSE <<>>)
               /\ ctxLocals' = Append(ctxLocals, [k |-> Node.item, v |-> coll.items[1]])
               /\ rStack' = Called([rStack EXCEPT ![Len(rStack)].iter = 1,
                                                  ![Len(rStack)].arr = coll.items], Node.body)
  /\ UNCHANGED <<rStatus, rTree, rParams, rCount, rSeen, rFirst, ctxRoot, lastCall>>
  /\ UNCHANGED renderFrame

\* render(body, ..) has returned into a For node: ctx.pop(), then the next
\* iteration, or the close literal after the last one.
RenderForNext ==
  /\ rStatus = "running"
  /\ Len(rStack) > 1
  /\ Top.at > Len(Top.nodes)
  /\ LET caller == rStack[Len(rStack) - 1]
         for == caller.nodes[caller.at]
         back == Front(rStack)
     IN /\ for.node = "For"
        /\ IF caller.iter < Len(caller.arr)
             THEN /\ rSql' = rSql \o (IF SepBefore(caller.iter) THEN <<Literal(for.sep)>> ELSE <<>>)
                  /\ ctxLocals' = Append(Popped(ctxLocals),
                                         [k |-> for.item, v |-> caller.arr[caller.iter + 1]])
                  /\ rStack' = Called([back EXCEPT ![Len(back)].iter = @ + 1], for.body)
             ELSE /\ rSql' = Append(rSql, Literal(for.close))
                  /\ ctxLocals' = Popped(ctxLocals)
                  /\ rStack' = [back EXCEPT ![Len(back)] = [@ EXCEPT !.at = @ + 1, !.iter = 0,
                                                                     !.arr = <<>>]]
  /\ UNCHANGED <<rStatus, rTree, rParams, rCount, rSeen, rFirst, ctxRoot, lastCall>>
  /\ UNCHANGED renderFrame

\* render(..) has returned into an If or an Include node.
RenderReturn ==
  /\ rStatus = "running"
  /\ Len(rStack) > 1
  /\ Top.at > Len(Top.nodes)
  /\ LET caller == rStack[Len(rStack) - 1]
         back == Front(rStack)
     IN /\ caller.nodes[caller.at].node \in {"If", "Include"}
        /\ rStack' = [back EXCEPT ![Len(back)].at = @ + 1]
  /\ UNCHANGED <<rStatus, rTree, rSql, rParams, rCount, rSeen, rFirst, ctxvars>>
  /\ UNCHANGED renderFrame

\* The outermost render(..) has returned: (buf.sql, buf.params) is the result.
RenderDone ==
  /\ rStatus = "running"
  /\ Len(rStack) = 1
  /\ Top.at > Len(Top.nodes)
  /\ rStatus' = "done"
  /\ rStack' = <<>>
  /\ rFirst' = IF rFirst = NoRender
                 THEN [tree |-> rTree, sql |-> rSql, params |-> rParams, seen |-> rSeen]
                 ELSE rFirst
  /\ UNCHANGED <<rTree, rSql, rParams, rCount, rSeen, ctxvars>>
  /\ UNCHANGED renderFrame

\* render_template: the tree get_ast returned to caller p is rendered.
RenderCached(p) ==
  /\ gpc[p] = "done"
  /\ RenderStart(ParseTemplate(gRet[p].src))

RenderStep ==
  \/ RenderText
  \/ RenderVar
  \/ RenderInclude
  \/ RenderIf
  \/ RenderFor
  \/ RenderForNext
  \/ RenderReturn
  \/ RenderDone

\* The contexts of the render runs.
InitRenderRuns ==
  /\ ctxRoot \in RenderRoots
  /\ ctxLocals = <<>>
  /\ lastCall = NoCall
  /\ InitBase

\* Renders of the sample trees, one after the other, while another thread
\* compiles templates under the included name and removes them.
NextRender ==
  \/ \E nodes \in SampleTrees : RenderStart(nodes)
  \/ RenderCached(1)
  \/ RenderStep
  \/ \E c \in Contents : GetAstCall(1, IncludeName, c)
  \/ GetAstLookup(1)
  \/ GetAstInsert(1)
  \/ RemoveTemplate(IncludeName)

\* Renders of a single If node, over the sample test expressions.
IfBody == <<Text(" and adult = 1"), Var(<<"a">>)>>

IfValues == {Null, Bool(FALSE), Bool(TRUE), I64(FALSE, 0), I32(1), Str("")}

IfRoots ==
  {Map(m) : m \in UNION {[D -> IfValues] : D \in SUBSET {<<"a">>, <<"b">>}}}

InitIfRuns ==
  /\ ctxRoot \in IfRoots
  /\ ctxLocals = <<>>
  /\ lastCall = NoCall
  /\ InitBase

\* The first render of a run.
RenderFirst(nodes) ==
  /\ rStatus = "idle"
  /\ RenderStart(nodes)

\* Each run renders one tree.
NextIf ==
  \/ \E test \in Exprs : RenderFirst(<<If(test, IfBody)>>)
  \/ RenderIf
  \/ RenderText
  \/ RenderVar
  \/ RenderReturn
  \/ RenderDone

\* ------------------------------------------------------------ mapper_loader
\* SQL_MAPPERS, the documents loaded into it and find_mapper.

\* database_type: None
NoTag == 0

\* content: None
NoContent == 0

\* SqlMapper::from(&item), with the id of the item it is stored under.
SqlItem(id, tag, content, gen) ==
  [id |-> id, content |-> content, database_type |-> tag, use_generated_keys |-> gen]

\* SqlNode::Unknown: into_item() gives None.
Unknown == [id |-> 0]

IntoItem(node) == IF node = Unknown THEN None ELSE Some(node)

\* A mapper document: its namespace and its statement nodes; one that is not
\* well-formed XML fails in de::from_str.
Doc(ns, nodes) == [nodes |-> nodes, ns |-> ns, wellFormed |-> TRUE]

Malformed == [nodes |-> <<>>, ns |-> 0, wellFormed |-> FALSE]

\* Mutant: only tagged entries are compared.
Duplicate_TaggedOnly(existing, new) ==
  existing.database_type # NoTag /\ existing.database_type = new.database_type

\* `existing.database_type == sql_mapper.database_type`
Duplicate(existing, new) == existing.database_type = new.database_type

\* The loop over mapper.nodes on the namespace's map: each item is checked
\* against the entries under its id and pushed; the first duplicate ends the
\* loop with an error and leaves what was pushed before it.
RECURSIVE ProcessNodes(_, _)
ProcessNodes(nsMap, nodes) ==
  IF nodes = <<>> THEN [m |-> nsMap, err |-> FALSE]
  ELSE LET item == IntoItem(nodes[1])
       IN IF ~item.some THEN ProcessNodes(nsMap, Tail(nodes))
          ELSE IF \E i \in DOMAIN nsMap[item.v.id] : Duplicate(nsMap[item.v.id][i], item.v)
            THEN [m |-> nsMap, err |-> TRUE]
            ELSE ProcessNodes([nsMap EXCEPT ![item.v.id] = Append(@, item.v)], Tail(nodes))

\* process_mapper_data
ProcessMapperData(st, doc) ==
  IF ~doc.wellFormed THEN [m |-> st, err |-> TRUE]
  ELSE LET done == ProcessNodes(st[doc.ns], doc.nodes)
       IN [m |-> [st EXCEPT ![doc.ns] = done.m], err |-> done.err]

\* Mutant: the first entry that is untagged or tagged with the type is taken.
FindIn_FirstSeen(mappers, type) ==
  LET fit == {i \in DOMAIN mappers : mappers[i].database_type \in {NoTag, type}}
  IN IF fit # {} THEN Some(mappers[MinOf(fit)]) ELSE None

\* The loop of find_mapper over the entries under the id: the first entry
\* tagged with db_type is returned at once; else the last untagged one.
FindIn(mappers, type) ==
  LET tagged == {i \in DOMAIN mappers : mappers[i].database_type = type}
      untagged == {i \in DOMAIN mappers : mappers[i].database_type = NoTag}
  IN IF tagged # {} THEN Some(mappers[MinOf(tagged)])
     ELSE IF untagged # {} THEN Some(mappers[MaxOf(untagged)])
     ELSE None

\* find_mapper(sql_id, db_type): sql_id is cut at its last dot; an id without
\* a dot, an unknown namespace and an unknown id give None.
FindMapper(st, sqlId, type) ==
  IF Len(sqlId) < 2 THEN None
  ELSE FindIn(st[sqlId[1]][sqlId[2]], type)

\* The documents loaded.
Nodes == {Unknown} \cup {SqlItem(i, t, 1, FALSE) : i \in Ids, t \in {NoTag} \cup Types}

Docs ==
  {Malformed} \cup
  {Doc(ns, nodes) : ns \in Namespaces, nodes \in UNION {[1..n -> Nodes] : n \in 0..MaxNodes}}

\* The sql ids looked up: namespace.id, and an id without a dot.
SqlIds == {<<ns, i>> : ns \in Namespaces, i \in Ids} \cup {<<1>>}

\* load / load_assets hand a document to process_mapper_data.
Load(doc) ==
  /\ loads < MaxLoads
  /\ fCall = NoFind
  /\ oOp = "none"
  /\ loads' = loads + 1
  /\ lDoc' = doc
  /\ store' = ProcessMapperData(store, doc).m
  /\ lRet' = IF ProcessMapperData(store, doc).err THEN "err" ELSE "ok"
  /\ UNCHANGED fCall
  /\ UNCHANGED loaderFrame

\* find_mapper(sql_id, db_type)
FindMapperCall(sqlId, type) ==
  /\ fCall = NoFind
  /\ fCall' = [fn |-> "find_mapper", out |-> FindMapper(store, sqlId, type), type |-> type,
               sqlId |-> sqlId]
  /\ UNCHANGED <<store, loads, lDoc, lRet>>
  /\ UNCHANGED loaderFrame

\* clear_mappers
ClearMappers ==
  /\ fCall = NoFind
  /\ oOp = "none"
  /\ store # [ns \in Namespaces |-> [i \in Ids |-> <<>>]]
  /\ store' = [ns \in Namespaces |-> [i \in Ids |-> <<>>]]
  /\ UNCHANGED <<loads, lDoc, lRet, fCall>>
  /\ UNCHANGED loaderFrame

NextLoader ==
  \/ \E doc \in Docs : Load(doc)
  \/ ClearMappers
  \/ \E sqlId \in SqlIds, type \in Types : FindMapperCall(sqlId, type)

\* ------------------------------------------------------ Mapper operations
\* One caller of get, list, create, batch_create, update and delete over the
\* store; the Session calls they make are followed as far as the connection
\* acquired and the statement sent.

MapperOps == {"get", "list", "create", "batch_create", "update", "delete"}

\* What an operation returns.
OkOutcome(what) == [variant |-> "Ok", msg |-> what]

Query(msg) == [variant |-> "Query", msg |-> msg]

\* an error of the pool or the backend
BackendError == [variant |-> "Database", msg |-> "backend"]

\* an error of R::deserialize
DeserializeError == [variant |-> "General", msg |-> "deserialize"]

\* get_sql_mapper
GetSqlMapper(st, sqlId, type) == FindMapper(st, sqlId, type)

\* Mutant: an entry without content is used as it is.
ContentMissing_Never(entry) == FALSE

\* mapper.content is None
ContentMissing(entry) == entry.content = NoContent

\* Mutant: the first row is returned when there is one.
GetResult_First(n) == IF n = 0 THEN Query("No row found") ELSE OkOutcome("row")

\* The end of get: more than one row is an error, rows.pop() of no row too.
GetResult(n) ==
  IF n > 1 THEN Query("Expected 1 row, got multiple")
  ELSE IF n = 0 THEN Query("No row found")
  ELSE OkOutcome("row")

\* The operation is called: the entry and its content are looked up, and the
\* errors of both are returned at once; batch_create over no input returns
\* an empty list.
MapperOpCall(op, sqlId, type, n) ==
  /\ oPc \in {"idle", "returned"}
  /\ fCall = NoFind
  /\ op # "batch_create" => n = 1
  /\ oOp' = op
  /\ oId' = sqlId
  /\ oType' = type
  /\ oArgs' = n
  /\ oAcquires' = 0
  /\ oStatements' = 0
  /\ oRows' = 0
  /\ LET mapper == GetSqlMapper(store, sqlId, type)
     IN /\ oMapper' = IF mapper.some THEN mapper ELSE [some |-> FALSE]
        /\ IF ~mapper.some
             THEN oPc' = "returned" /\ oRet' = Query("SQL ID not found")
           ELSE IF ContentMissing(mapper.v)
             THEN oPc' = "returned" /\ oRet' = Query("SQL content empty")
           ELSE IF n = 0
             THEN oPc' = "returned" /\ oRet' = OkOutcome("values")
           ELSE oPc' = "session" /\ oRet' = NoOutcome
  /\ UNCHANGED opsFrame

\* self.pool.connection() inside Session::query / execute / last_insert_id.
OpAcquire(ok) ==
  /\ oPc \in {"session", "key"}
  /\ IF ok
       THEN /\ oAcquires' = oAcquires + 1
            /\ oPc' = IF oPc = "session" THEN "statement" ELSE "last_insert_id"
            /\ UNCHANGED oRet
       ELSE /\ oPc' = "returned"
            /\ oRet' = BackendError
            /\ UNCHANGED oAcquires
  /\ UNCHANGED <<oOp, oId, oType, oArgs, oStatements, oRows, oMapper>>
  /\ UNCHANGED opsFrame

\* R::deserialize of the element's value and results.push: on to the next
\* element, or the return.
Collected(deOk) ==
  IF ~deOk
    THEN oPc' = "returned" /\ oRet' = DeserializeError /\ UNCHANGED oArgs
  ELSE IF oArgs > 1
    THEN oPc' = "session" /\ oArgs' = oArgs - 1 /\ UNCHANGED oRet
  ELSE /\ oPc' = "returned"
       /\ oArgs' = 0
       /\ oRet' = OkOutcome(IF oOp = "create" THEN "value" ELSE "values")

\* conn.query / conn.execute: the statement is sent; n rows come back from a
\* query that succeeded.
OpStatement(ok, n, deOk) ==
  /\ oPc = "statement"
  /\ oStatements' = oStatements + 1
  /\ (~ok \/ oOp \notin {"get", "list"}) => n = 0
  /\ (~ok \/ oOp \notin {"create", "batch_create"} \/ oMapper.v.use_generated_keys) => deOk
  /\ oRows' = n
  /\ IF ~ok THEN oPc' = "returned" /\ oRet' = BackendError /\ UNCHANGED oArgs
     ELSE IF oOp = "get" THEN oPc' = "returned" /\ oRet' = GetResult(n) /\ UNCHANGED oArgs
     ELSE IF oOp = "list" THEN oPc' = "returned" /\ oRet' = OkOutcome("rows") /\ UNCHANGED oArgs
     ELSE IF oOp \in {"update", "delete"}
       THEN oPc' = "returned" /\ oRet' = OkOutcome("affected") /\ UNCHANGED oArgs
     ELSE IF oMapper.v.use_generated_keys THEN oPc' = "key" /\ UNCHANGED <<oRet, oArgs>>
     ELSE Collected(deOk)
  /\ UNCHANGED <<oOp, oId, oType, oAcquires, oMapper>>
  /\ UNCHANGED opsFrame

\* conn.last_insert_id() answers.
OpLastInsertId(deOk) ==
  /\ oPc = "last_insert_id"
  /\ Collected(deOk)
  /\ UNCHANGED <<oOp, oId, oType, oAcquires, oStatements, oRows, oMapper>>
  /\ UNCHANGED opsFrame

\* The documents loaded before the operations: an untagged entry with a
\* tagged one without content under the same id, an entry for one backend
\* only that uses generated keys, and an entry without content.
SampleDocs ==
  { Doc(1, <<SqlItem(1, NoTag, 1, FALSE), SqlItem(1, 1, NoContent, FALSE)>>),
    Doc(1, <<SqlItem(2, 2, 1, TRUE), Unknown>>),
    Doc(2, <<SqlItem(1, NoTag, NoContent, FALSE)>>) }

NextMapperOps ==
  \/ \E doc \in SampleDocs : Load(doc)
  \/ \E op \in MapperOps, sqlId \in SqlIds, type \in Types, n \in 0..MaxBatch :
       MapperOpCall(op, sqlId, type, n)
  \/ \E ok \in BOOLEAN : OpAcquire(ok)
  \/ \E ok, deOk \in BOOLEAN, n \in 0..MaxRows : OpStatement(ok, n, deOk)
  \/ \E deOk \in BOOLEAN : OpLastInsertId(deOk)

\* ------------------------------------------------------------ Parser::parse
\* A template is a sequence of characters; one run of parse is followed loop
\* turn by loop turn.  A template is a sequence of bytes, one per ASCII
\* character; a space is the only whitespace.

\* &s[n..]
Drop(s, n) == SubSeq(s, n + 1, Len(s))

\* s.starts_with(p)
StartsWith(s, p) == Len(s) >= Len(p) /\ SubSeq(s, 1, Len(p)) = p

\* s.match_indices(p): the offsets p occurs at
MatchIndices(s, p) == {i \in 0..(Len(s) - Len(p)) : SubSeq(s, i + 1, i + Len(p)) = p}

\* s.find(p)
Find(s, p) == IF MatchIndices(s, p) = {} THEN None ELSE Some(MinOf(MatchIndices(s, p)))

IsWhitespace(c) == c = " "

\* The bytes of the sample templates that continue a character begun by an
\* earlier byte (UTF-8 10xxxxxx); every other byte starts a character.
IsContinuation(b) == b \in {"9F", "98", "80"}

\* s.chars(): one item per character, here its first byte
Chars(s) == SelectSeq(s, LAMBDA b : ~IsContinuation(b))

\* s.chars().nth(n)
CharsNth(s, n) == IF n < Len(Chars(s)) THEN Some(Chars(s)[n + 1]) ELSE None

\* s.trim_start()
TrimStart(s) ==
  LET solid == {i \in DOMAIN s : ~IsWhitespace(s[i])}
  IN IF solid = {} THEN <<>> ELSE Drop(s, MinOf(solid) - 1)

\* s.trim()
Trim(s) ==
  LET solid == {i \in DOMAIN s : ~IsWhitespace(s[i])}
  IN IF solid = {} THEN <<>> ELSE SubSeq(s, MinOf(solid), MaxOf(solid))

\* find_tag_end: the offset of the first '>' that is outside quotes
FindTagEnd(s) ==
  LET ends == {i \in DOMAIN s :
                 /\ s[i] = ">"
                 /\ Cardinality({j \in 1..(i - 1) : s[j] = "\""}) % 2 = 0}
  IN IF ends = {} THEN None ELSE Some(MinOf(ends) - 1)

\* What follows an occurrence of the key in extract_attr: '=' and a quoted
\* string, with whitespace allowed around the '='.
AttrValue(rest) ==
  LET trimmed == TrimStart(rest)
      afterEq == TrimStart(Drop(trimmed, 1))
      end == Find(Drop(afterEq, 1), <<"\"">>)
  IN IF StartsWith(trimmed, <<"=">>) /\ StartsWith(afterEq, <<"\"">>) /\ end.some
       THEN Some(SubSeq(afterEq, 2, 1 + end.v))
       ELSE None

\* extract_attr, `tag_content.chars().nth(i - 1)` with i the byte offset of
\* an occurrence of the key: the character counted from the start, which is
\* the one before the key only when no character before it is longer than a
\* byte.
PrevChar(content, i) == CharsNth(content, i - 1)

\* The occurrences of the key at which extract_attr returns a value: the
\* key stands at the start or after what it takes for the character before
\* it, whitespace, and is followed by ="..."
AttrFits(content, key) ==
  {i \in MatchIndices(content, key) :
     /\ i > 0 => (PrevChar(content, i).some /\ IsWhitespace(PrevChar(content, i).v))
     /\ AttrValue(Drop(content, i + Len(key))).some}

\* extract_attr panics: `.unwrap()` of a PrevChar that is None, at an
\* occurrence reached before any at which it returns.
ExtractAttrPanics(content, key) ==
  \E i \in MatchIndices(content, key) :
    /\ i > 0
    /\ ~PrevChar(content, i).some
    /\ \A j \in AttrFits(content, key) : j > i

\* extract_attr: the value at the first occurrence that fits
ExtractAttr(content, key) ==
  IF AttrFits(content, key) = {} THEN None
  ELSE AttrValue(Drop(content, MinOf(AttrFits(content, key)) + Len(key)))

\* .unwrap_or(default)
UnwrapOr(opt, default) == IF opt.some THEN opt.v ELSE default

\* TagFrame
IfFrame(test) == [variant |-> "If", test |-> test]

ForFrame(item, collection, open, sep, close) ==
  [variant |-> "For", sep |-> sep, item |-> item, collection |-> collection, open |-> open,
   close |-> close]

\* The node a frame becomes when it is closed over a body.
ClosedNode(tag, body) ==
  IF tag.variant = "If" THEN If(tag.test, body)
  ELSE For(tag.item, tag.collection, tag.open, tag.sep, tag.close, body)

\* The state of a Parser.
ParserAt(pos, nodes, tags) == [pos |-> pos, nodes_stack |-> nodes, tag_stack |-> tags]

\* Mutant: the node is put in front of the scope's nodes.
AppendNode_Front(nodes, node) ==
  IF nodes = <<>> THEN nodes
  ELSE [nodes EXCEPT ![Len(nodes)] = <<node>> \o @]

\* append_node
AppendNode(nodes, node) ==
  IF nodes = <<>> THEN nodes
  ELSE [nodes EXCEPT ![Len(nodes)] = Append(@, node)]

\* Mutant: every piece of text becomes a node of its own.
AppendText_NoMerge(nodes, text) == AppendNode(nodes, Text(text))

\* append_text
AppendText(nodes, text) ==
  IF nodes = <<>> THEN nodes
  ELSE LET scope == Last(nodes)
       IN IF scope # <<>> /\ Last(scope).node = "Text"
            THEN [nodes EXCEPT ![Len(nodes)][Len(scope)].text = @ \o text]
            ELSE AppendNode(nodes, Text(text))

\* Mutant: an opening tag gets no frame of its own for its body.
OpenScope_None(nodes) == nodes

\* self.nodes_stack.push(Vec::new()) of handle_if_tag and handle_for_tag
OpenScope(nodes) == Append(nodes, <<>>)

\* handle_if_tag
HandleIfTag(p, remaining) ==
  LET end == FindTagEnd(remaining)
      test == ExtractAttr(SubSeq(remaining, 5, end.v), <<"t", "e", "s", "t">>)
  IN IF end.some /\ test.some
       THEN Some(ParserAt(p.pos + end.v + 1, OpenScope(p.nodes_stack),
                          Append(p.tag_stack, IfFrame(test.v))))
       ELSE None

\* handle_for_tag
HandleForTag(p, remaining) ==
  LET end == FindTagEnd(remaining)
      content == SubSeq(remaining, 6, end.v)
      item == ExtractAttr(content, <<"i", "t", "e", "m">>)
      collection == ExtractAttr(content, <<"c", "o", "l", "l", "e", "c", "t", "i", "o", "n">>)
      open == UnwrapOr(ExtractAttr(content, <<"o", "p", "e", "n">>), <<>>)
      sep == UnwrapOr(ExtractAttr(content, <<"s", "e", "p">>), <<",">>)
      close == UnwrapOr(ExtractAttr(content, <<"c", "l", "o", "s", "e">>), <<>>)
  IN IF end.some /\ item.some /\ collection.some
       THEN Some(ParserAt(p.pos + end.v + 1, OpenScope(p.nodes_stack),
                          Append(p.tag_stack, ForFrame(item.v, collection.v, open, sep, close))))
       ELSE None

\* handle_include_tag
HandleIncludeTag(p, remaining) ==
  LET end == FindTagEnd(remaining)
      refid == ExtractAttr(SubSeq(remaining, 9, end.v), <<"r", "e", "f", "i", "d">>)
  IN IF end.some /\ refid.some
       THEN Some(ParserAt(p.pos + end.v + 1, AppendNode(p.nodes_stack, Include(refid.v)),
                          p.tag_stack))
       ELSE None

\* handle_close_tag: </if> closes an If frame on top of the tag stack, </for>
\* a For frame.
HandleCloseTag(p, remaining) ==
  LET kind == IF StartsWith(remaining, <<"<", "/", "i", "f", ">">>) THEN "If"
              ELSE IF StartsWith(remaining, <<"<", "/", "f", "o", "r", ">">>) THEN "For"
              ELSE "none"
  IN IF kind # "none" /\ p.tag_stack # <<>> /\ Last(p.tag_stack).variant = kind
       THEN Some(ParserAt(p.pos + (IF kind = "If" THEN 5 ELSE 6),
                          AppendNode(Front(p.nodes_stack),
                                     ClosedNode(Last(p.tag_stack), Last(p.nodes_stack))),
                          Front(p.tag_stack)))
       ELSE None

\* try_parse_tag
TryParseTag(p, remaining) ==
  IF StartsWith(remaining, <<"<", "/">>) THEN HandleCloseTag(p, remaining)
  ELSE IF StartsWith(remaining, <<"<", "i", "f", " ">>) THEN HandleIfTag(p, remaining)
  ELSE IF StartsWith(remaining, <<"<", "f", "o", "r", " ">>) THEN HandleForTag(p, remaining)
  ELSE IF StartsWith(remaining, <<"<", "i", "n", "c", "l", "u", "d", "e">>)
    THEN HandleIncludeTag(p, remaining)
  ELSE None

\* try_parse_tag panics in an extract_attr of the handler it calls; the
\* optional attributes of <for> are read only once item and collection are
\* there.
TryParseTagPanics(remaining) ==
  LET end == FindTagEnd(remaining)
      panics(from, key) == ExtractAttrPanics(SubSeq(remaining, from, end.v), key)
      has(from, key) == ExtractAttr(SubSeq(remaining, from, end.v), key).some
  IN /\ end.some
     /\ ~StartsWith(remaining, <<"<", "/">>)
     /\ IF StartsWith(remaining, <<"<", "i", "f", " ">>)
          THEN panics(5, <<"t", "e", "s", "t">>)
        ELSE IF StartsWith(remaining, <<"<", "f", "o", "r", " ">>)
          THEN \/ panics(6, <<"i", "t", "e", "m">>)
               \/ panics(6, <<"c", "o", "l", "l", "e", "c", "t", "i", "o", "n">>)
               \/ /\ has(6, <<"i", "t", "e", "m">>)
                  /\ has(6, <<"c", "o", "l", "l", "e", "c", "t", "i", "o", "n">>)
                  /\ \/ panics(6, <<"o", "p", "e", "n">>)
                     \/ panics(6, <<"s", "e", "p">>)
                     \/ panics(6, <<"c", "l", "o", "s", "e">>)
        ELSE IF StartsWith(remaining, <<"<", "i", "n", "c", "l", "u", "d", "e">>)
          THEN panics(9, <<"r", "e", "f", "i", "d">>)
        ELSE FALSE

\* try_parse_var
TryParseVar(p, remaining) ==
  LET end == Find(remaining, <<"}">>)
      name == Trim(SubSeq(remaining, 3, end.v))
  IN IF StartsWith(remaining, <<"#", "{">>) /\ end.some /\ name # <<>>
       THEN Some(ParserAt(p.pos + end.v + 1, AppendNode(p.nodes_stack, Var(name)), p.tag_stack))
       ELSE None

\* parse_text: the text up to the next '<' or "#{"; one character when the
\* text starts with one of them.
ParseText(p, remaining) ==
  LET nextTag == UnwrapOr(Find(remaining, <<"<">>), Len(remaining))
      nextVar == UnwrapOr(Find(remaining, <<"#", "{">>), Len(remaining))
      nextStop == IF nextTag < nextVar THEN nextTag ELSE nextVar
      taken == IF nextStop > 0 THEN nextStop ELSE 1
  IN ParserAt(p.pos + taken, AppendText(p.nodes_stack, SubSeq(remaining, 1, taken)), p.tag_stack)

\* The pieces the sample templates are put together from.
\* <if test="a>1">
IfPiece ==
  <<"<", "i", "f", " ", "t", "e", "s", "t", "=", "\"", "a", ">", "1", "\"", ">">>

\* </if>
EndIfPiece ==
  <<"<", "/", "i", "f", ">">>

\* <for item="i" collection="c">
ForPiece ==
  <<"<", "f", "o", "r", " ", "i", "t", "e", "m", "=", "\"", "i", "\"", " ", "c", "o", "l",
    "l", "e", "c", "t", "i", "o", "n", "=", "\"", "c", "\"", ">">>

\* </for>
EndForPiece ==
  <<"<", "/", "f", "o", "r", ">">>

\* <include refid="r"/>
IncludePiece ==
  <<"<", "i", "n", "c", "l", "u", "d", "e", " ", "r", "e", "f", "i", "d", "=", "\"", "r",
    "\"", "/", ">">>

\* #{ a}
VarPiece ==
  <<"#", "{", " ", "a", "}">>

\* <u>
UnknownPiece ==
  <<"<", "u", ">">>

\* #{
OpenVarPiece ==
  <<"#", "{">>

\* #{ }
EmptyVarPiece ==
  <<"#", "{", " ", "}">>

\* <if x="y">
NoTestPiece ==
  <<"<", "i", "f", " ", "x", "=", "\"", "y", "\"", ">">>

\* t
TextPiece ==
  <<"t">>

\* <
LtPiece ==
  <<"<">>

\* <includes refid="r">
IncludesPiece ==
  <<"<", "i", "n", "c", "l", "u", "d", "e", "s", " ", "r", "e", "f", "i", "d", "=", "\"",
    "r", "\"", ">">>

SamplePieces ==
  {IfPiece, EndIfPiece, ForPiece, EndForPiece, IncludePiece,
   VarPiece, UnknownPiece, OpenVarPiece, EmptyVarPiece, NoTestPiece,
   TextPiece, LtPiece, IncludesPiece}

RECURSIVE Joined(_)
Joined(pieces) == IF pieces = <<>> THEN <<>> ELSE pieces[1] \o Joined(Tail(pieces))

Templates == {Joined(ps) : ps \in UNION {[1..n -> SamplePieces] : n \in 0..MaxPieces}}

Parser == ParserAt(pPos, pNodes, pTags)

Remaining == Drop(pTemplate, pPos)

Scanning == pPc = "parsing" /\ pPos < Len(pTemplate)

Moved(p) ==
  /\ pPos' = p.pos
  /\ pNodes' = p.nodes_stack
  /\ pTags' = p.tag_stack
  /\ UNCHANGED <<pPc, pTemplate, pOut>>
  /\ UNCHANGED parseFrame

\* Parser::new(template).parse() is called.
ParseStart(template) ==
  /\ pPc = "idle"
  /\ pPc' = "parsing"
  /\ pTemplate' = template
  /\ pPos' = 0
  /\ pNodes' = <<<<>>>>
  /\ pTags' = <<>>
  /\ UNCHANGED pOut
  /\ UNCHANGED parseFrame

\* A turn of the loop in which try_parse_tag succeeds.
ParseTagTurn ==
  /\ Scanning
  /\ ~TryParseTagPanics(Remaining)
  /\ TryParseTag(Parser, Remaining).some
  /\ Moved(TryParseTag(Parser, Remaining).v)

\* A turn in which try_parse_tag fails and try_parse_var succeeds.
ParseVarTurn ==
  /\ Scanning
  /\ ~TryParseTagPanics(Remaining)
  /\ ~TryParseTag(Parser, Remaining).some
  /\ TryParseVar(Parser, Remaining).some
  /\ Moved(TryParseVar(Parser, Remaining).v)

\* A turn in which both fail: parse_text.
ParseTextTurn ==
  /\ Scanning
  /\ ~TryParseTagPanics(Remaining)
  /\ ~TryParseTag(Parser, Remaining).some
  /\ ~TryParseVar(Parser, Remaining).some
  /\ Moved(ParseText(Parser, Remaining))

\* close_remaining_tags, one turn of its loop: the innermost frame is popped
\* with its body and the node appended to the scope below.
CloseRemainingTurn ==
  /\ pPc = "parsing"
  /\ pPos >= Len(pTemplate)
  /\ pTags # <<>>
  /\ Moved(ParserAt(pPos, AppendNode(Front(pNodes), ClosedNode(Last(pTags), Last(pNodes))),
                    Front(pTags)))

\* self.nodes_stack.pop().unwrap_or_default()
ParseReturn ==
  /\ pPc = "parsing"
  /\ pPos >= Len(pTemplate)
  /\ pTags = <<>>
  /\ pPc' = "done"
  /\ pOut' = IF pNodes = <<>> THEN <<>> ELSE Last(pNodes)
  /\ pNodes' = IF pNodes = <<>> THEN <<>> ELSE Front(pNodes)
  /\ UNCHANGED <<pTemplate, pPos, pTags>>
  /\ UNCHANGED parseFrame

NextParser ==
  \/ \E template \in Templates : ParseStart(template)
  \/ ParseTagTurn
  \/ ParseVarTurn
  \/ ParseTextTurn
  \/ CloseRemainingTurn
  \/ ParseReturn

\* A turn in which try_parse_tag panics: parse unwinds and returns nothing.
ParsePanic ==
  /\ Scanning
  /\ TryParseTagPanics(Remaining)
  /\ pPc' = "panicked"
  /\ UNCHANGED <<pTemplate, pPos, pNodes, pTags, pOut>>
  /\ UNCHANGED parseFrame

\* Templates with characters of more than one byte.  U+1F600, the bytes
\* F0 9F 98 80:
Wide == <<"F0", "9F", "98", "80">>

\* <if W test="a"> and <if WWW test="a">, W the wide character
WideIfPiece(n) ==
  <<"<", "i", "f", " ">> \o Joined([i \in 1..n |-> Wide])
    \o <<" ", "t", "e", "s", "t", "=", "\"", "a", "\"", ">">>

\* <for item="W" collection="c" sep="W">
WideForPiece ==
  <<"<", "f", "o", "r", " ", "i", "t", "e", "m", "=", "\"">> \o Wide
    \o <<"\"", " ", "c", "o", "l", "l", "e", "c", "t", "i", "o", "n", "=", "\"", "c", "\"",
         " ", "s", "e", "p", "=", "\"">> \o Wide \o <<"\"", ">">>

WidePieces ==
  {WideIfPiece(1), WideIfPiece(MaxWide), WideForPiece, Wide, IfPiece, EndIfPiece, VarPiece,
   TextPiece}

WideTemplates == {Joined(ps) : ps \in UNION {[1..n -> WidePieces] : n \in 0..MaxPieces}}

NextParserWide ==
  \/ \E template \in WideTemplates : ParseStart(template)
  \/ ParseTagTurn
  \/ ParseVarTurn
  \/ ParseTextTurn
  \/ CloseRemainingTurn
  \/ ParseReturn
  \/ ParsePanic

\* ------------------------------------------- mapper statements that include
\* A Mapper operation on an entry whose SQL holds an <include>: the operation
\* hands the entry's SQL text to Session, which renders it.  Template names
\* and SQL texts are both strings: name IncludeName is the string "1.1", the
\* sql id of the fragment entry, and name 2 is the text of content 3; the
\* other sample contents are texts outside Names.

\* Session::execute / query: render_template(sql, sql, args, ..): the name
\* the tree is cached under is the SQL text itself.
TemplateNameOf(c) == IF c = 3 THEN 2 ELSE 0

\* The refid that spells the sql id "namespace.id".
RefidOf(sqlId) == IF sqlId = <<1, 1>> THEN IncludeName ELSE 0

\* The document loaded: entry 1.1 is the fragment (content 1), entry 1.2
\* includes it with refid "1.1" (content 3).
IncludeDoc == Doc(1, <<SqlItem(1, NoTag, 1, FALSE), SqlItem(2, NoTag, 3, FALSE)>>)

\* engine::render_template, first line: get_ast(template_name, content) with
\* both arguments the SQL text of the entry the operation found.
SessionGetAst ==
  /\ oPc = "session"
  /\ rStatus = "idle"
  /\ gpc[1] = "idle"
  /\ TemplateNameOf(oMapper.v.content) \in Names
  /\ GetAstCall(1, TemplateNameOf(oMapper.v.content), oMapper.v.content)

\* engine::render_template, the rest: the tree get_ast returned is rendered.
SessionRender ==
  /\ oPc = "session"
  /\ rStatus = "idle"
  /\ RenderCached(1)

\* render_template of a text whose name is none of Names: its tree is cached
\* under a name no refid of the sample contents spells, and is rendered.
SessionRenderUnnamed ==
  /\ oPc = "session"
  /\ rStatus = "idle"
  /\ TemplateNameOf(oMapper.v.content) \notin Names
  /\ RenderStart(ParseTemplate(oMapper.v.content))

\* The sample entries hold text, variables and includes; a body is entered
\* only through an include that finds its template.
NextInclude ==
  \/ Load(IncludeDoc)
  \/ \E op \in MapperOps, sqlId \in SqlIds, type \in Types : MapperOpCall(op, sqlId, type, 1)
  \/ SessionGetAst
  \/ GetAstLookup(1)
  \/ GetAstInsert(1)
  \/ SessionRender
  \/ SessionRenderUnnamed
  \/ RenderText
  \/ RenderVar
  \/ RenderInclude
  \/ RenderDone

\* ---------------------------------------------------- specifications

Init == InitBase /\ InitContext

\* Tasks using Sessions and transaction contexts over one pool.
Spec == Init /\ [][NextTx]_vars

\* The same, with what the runtime guarantees of a spawned task: it is run,
\* and the backend answers the statement it sent.
SpecFair ==
  /\ Spec
  /\ \A k \in Conns : WF_vars(DropRollbackStart(k))
  /\ \A k \in Conns : WF_vars(\E ok \in BOOLEAN : DropRollbackFinish(k, ok))
  /\ \A k \in Conns : WF_vars(DropRollbackRelease(k))

\* Concurrent callers of get_ast and remove_template.
SpecCache == Init /\ [][NextCache]_vars

\* A caller of Mapper.create / Mapper.batch_create, and other tasks inserting
\* through the same pool.
SpecMapper == Init /\ [][NextMapper]_vars

\* Tasks calling Session::execute / Session::query over one pool.
SpecSession == Init /\ [][NextSessionCall]_vars

\* Context::push, pop and lookup on the sample contexts.
SpecLookup == InitLookup /\ [][NextLookup]_vars

\* eval_atom and eval_expr on the sample contexts.
SpecEval == InitEval /\ [][NextEval]_vars

\* Renders of the sample trees while the cache changes.
SpecRender == InitRenderRuns /\ [][NextRender]_vars

\* Renders of an If node with each of the sample tests.
SpecIf == InitIfRuns /\ [][NextIf]_vars

\* Loads of mapper documents, then one find_mapper call.
SpecLoader == Init /\ [][NextLoader]_vars

\* Loads of the sample documents, then Mapper operations.
SpecMapperOps == Init /\ [][NextMapperOps]_vars

\* One parse of each sample template.
SpecParser == Init /\ [][NextParser]_vars

\* Mapper operations on entries that include one another.
SpecInclude == InitRenderRuns /\ [][NextInclude]_vars

\* Parser::parse over templates with characters longer than a byte.
SpecParserWide == Init /\ [][NextParserWide]_vars

\* ------------------------------------------------------------- claims

\* C1 (as stated): for a TransactionContext dropped without a successful
\* commit(), no commit is ever issued on its connection; so when Drop has
\* spawned its rollback task, the connection's last recorded
\* transaction-control call is not a commit.
C1_NoCommitIssued ==
  \A k \in Conns : rb[k] = "spawned" => lastTx[k] # "commit"

\* C1 (amended): for every TransactionContext dropped while its committed flag
\* is false, Drop spawns a rollback task that holds the connection; a rollback
\* is eventually issued on the connection; from then until the connection is
\* released its last recorded transaction-control call is rollback; and the
\* statements issued inside the context are not applied (no commit succeeded).
C1_DropRollsBack ==
  /\ [][\A t \in Tasks :
          (pc[t] = "tx" /\ pc'[t] = "idle")
            => (rb'[ctxConn[t]] = "spawned") = (~committed[t])]_vars
  /\ [](\A k \in Conns : rb[k] # "none" => stmts[k] # "applied")
  /\ [](\A k \in Conns : rb[k] \in {"running", "done"} => lastTx[k] = "rollback")
  /\ \A k \in Conns : (rb[k] = "spawned") ~> (rb[k] = "running")

\* C1 witness: the rollback task of a dropped context has sent its rollback.
C1_Witness == \E k \in Conns : rb[k] = "done" /\ lastTx[k] = "rollback"

\* C2: after a TransactionContext is discarded without commit, its connection
\* is not in the pool and nobody else holds or uses it until the spawned
\* rollback has been issued and has returned; only then is it released.
C2_RollbackBeforeRelease ==
  \A k \in Conns :
    rb[k] # "none" =>
      /\ k \notin idle
      /\ \A t \in Tasks : ctxConn[t] # k /\ sessConn[t] # k
      /\ Running(k) \subseteq {<<"drop_rollback", 0, 0>>}

\* C2 witness: a rollback task is pending on a connection while a task that
\* could acquire it is about to ask the pool, and the pool has no other
\* connection to give.
C2_Witness ==
  \E k \in Conns : rb[k] = "spawned" /\ idle = {} /\ \E t \in Tasks : pc[t] = "idle"

\* C3: a Session call of a task that has an open transaction context runs on
\* that context's connection and asks the pool for nothing; a Session call of
\* a task without one holds exactly one connection acquired from the pool; a
\* Session holds no connection when no call of it is in flight.
C3_SessionRouting ==
  \A t \in Tasks :
    /\ sessConn[t] # NoConn =>
         IF HasCtx(t)
           THEN sessConn[t] = ctxConn[t] /\ sessAcq[t] = 0
           ELSE sessAcq[t] = 1 /\ sessConn[t] \notin idle
    /\ sessConn[t] = NoConn => sessAcq[t] = 0

\* C4: while a TransactionContext exists, exactly one pool acquire was made
\* for it, its connection is not in the pool, no Session call holds that
\* connection, and every call running on behalf of the context runs on that
\* connection.
C4_SingleConnection ==
  \A t \in Tasks :
    HasCtx(t) =>
      /\ ctxAcq[t] = 1
      /\ ctxConn[t] \in Conns \ idle
      /\ \A u \in Tasks : sessConn[u] # ctxConn[t] /\ (u # t => ctxConn[u] # ctxConn[t])
      /\ \A i \in Lanes : lane[t][i] = "run" => laneConn[t][i] = ctxConn[t]

\* C4 witness: a call runs on the context's connection after a commit or a
\* rollback has been issued on it.
C4_Witness ==
  \E t \in Tasks, i \in Lanes :
    /\ lane[t][i] = "run" /\ laneConn[t][i] = ctxConn[t]
    /\ lastTx[ctxConn[t]] \in {"commit", "rollback"}

\* C5: at no time are two operations in progress on the same connection.
C5_ExclusiveConnection ==
  \A k \in Conns : Cardinality(Running(k)) <= 1

\* C5 witness: an operation is in progress on a connection while another call
\* for the same connection is waiting, and a second connection is in use by
\* another task.
C5_Witness ==
  \E t \in Tasks, i, j \in Lanes :
    /\ lane[t][i] = "run" /\ lane[t][j] = "wait"
    /\ \E u \in Tasks \ {t} : sessConn[u] # NoConn

\* C6: of the calls made on one transaction context at most one is running on
\* the connection; a call starts only when none of the others is running.
C6_SequentialCalls ==
  [][\A t \in Tasks, i \in Lanes :
       (lane[t][i] = "wait" /\ lane'[t][i] = "run")
         => \A j \in Lanes \ {i} : lane[t][j] # "run" /\ lane'[t][j] # "run"]_vars

\* C6 witness: a second call was made on the context while the first is
\* running, and waits.
C6_Witness ==
  \E t \in Tasks, i, j \in Lanes :
    lane[t][i] = "run" /\ laneKind[t][i] = "execute" /\ lane[t][j] = "wait"

\* C7: get_ast returns the stored tree without compiling exactly when the
\* entry under the name has the hash of the supplied content; otherwise it
\* compiles the content, replaces the entry by (new tree, new hash) and returns
\* the new tree.  When a call completes, the entry under its name carries the
\* tree it returned and the hash of the content it supplied, and the tree a
\* caller holds was compiled from content with the hash of its own content.
C7_GetAst ==
  /\ [][\A p \in Callers :
          (gpc[p] = "get" /\ gpc'[p] # "get") =>
            IF cache[gName[p]] # NoEntry /\ cache[gName[p]].hash = Hash(gContent[p])
              THEN /\ gpc'[p] = "done"
                   /\ gRet'[p] = cache[gName[p]].ast
                   /\ compiles' = compiles
                   /\ cache' = cache
              ELSE /\ gpc'[p] = "miss"
                   /\ cache' = cache]_vars
  /\ [][\A p \in Callers :
          (gpc[p] = "miss" /\ gpc'[p] # "miss") =>
            /\ gpc'[p] = "done"
            /\ compiles' = compiles + 1
            /\ gRet'[p] = [src |-> gContent[p], id |-> compiles']
            /\ cache'[gName[p]] = [ast |-> gRet'[p], hash |-> Hash(gContent[p])]]_vars
  /\ [][\A p \in Callers :
          (gpc[p] # "done" /\ gpc'[p] = "done") =>
            /\ cache'[gName[p]].ast = gRet'[p]
            /\ cache'[gName[p]].hash = Hash(gContent[p])]_vars
  /\ [](\A p \in Callers : gpc[p] = "done" => Hash(gRet[p].src) = Hash(gContent[p]))

\* One caller was served from the cache, and another then supplied content
\* with another hash under the same name: it was compiled and replaced the entry.
C7_Witness ==
  \E p, q \in Callers :
    /\ gpc[p] = "done" /\ ~gHit[p]
    /\ gpc[q] = "done" /\ gHit[q]
    /\ gName[p] = gName[q]
    /\ Hash(gContent[p]) # Hash(gContent[q])
    /\ gRet[q].id < gRet[p].id
    /\ cache[gName[p]].ast = gRet[p]

\* C8: every entry in the cache pairs a tree with the hash of the content that
\* tree was compiled from, and is never half-written.
C8_EntryConsistent ==
  \A n \in Names :
    cache[n] # NoEntry =>
      /\ cache[n].ast # NoTree
      /\ cache[n].ast.src \in Contents
      /\ cache[n].hash = Hash(cache[n].ast.src)

\* Two calls on one name overlap: one has inserted its tree over an older
\* entry while the other, which missed before that insert, is still compiling
\* content of another hash.
C8_Witness ==
  \E p, q \in Callers :
    /\ p # q
    /\ gName[p] = gName[q]
    /\ gpc[p] = "done" /\ ~gHit[p] /\ gRet[p].id > 1
    /\ cache[gName[p]].ast = gRet[p]
    /\ gpc[q] = "miss"
    /\ Hash(gContent[q]) # Hash(gContent[p])

\* C9 (as stated): batch_create makes its calls one at a time in input order;
\* when it returns Ok there are n results and result i is the key generated
\* for input i (with generated keys) or the affected count of input i's
\* statement; when element k fails nothing is issued for a later element, no
\* rollback is issued, and the rows of the elements before k stay in the table.
C9_BatchCreate ==
  mOp = "batch_create" =>
    /\ \A a, b \in DOMAIN mCalls :
         a < b => /\ mCalls[a].elem <= mCalls[b].elem
                  /\ mCalls[a].elem = mCalls[b].elem =>
                       mCalls[a].call = "execute" /\ mCalls[b].call = "last_insert_id"
    /\ mpc = "ok" =>
         /\ Len(mResults) = mN
         /\ \A i \in 1..mN : mResults[i] = IF mGen THEN mKeys[i] ELSE mAffs[i]
    /\ mpc = "err" =>
         /\ \A a \in DOMAIN mCalls : mCalls[a].elem <= mI /\ mCalls[a].call # "rollback"
         /\ \A i \in DOMAIN mKeys : mKeys[i] \in rows

\* C10 (as stated): create makes exactly one execute; last_insert_id is called
\* only after that execute succeeded and only with generated keys, and then
\* the value returned is the key the insert generated, otherwise the affected
\* count; after a failed execute last_insert_id is not called and Err returns.
C10_Create ==
  mOp = "create" =>
    LET execs == {a \in DOMAIN mCalls : mCalls[a].call = "execute"}
        keys == {a \in DOMAIN mCalls : mCalls[a].call = "last_insert_id"}
    IN /\ Cardinality(execs) <= 1
       /\ mpc = "ok" => Cardinality(execs) = 1
       /\ keys # {} => /\ mGen
                       /\ Cardinality(keys) = 1
                       /\ mCalls[1].call = "execute"
                       /\ Len(mKeys) = 1
       /\ mpc = "ok" => /\ mGen => keys # {}
                        /\ mResults = <<IF mGen THEN mKeys[1] ELSE mAffs[1]>>
       /\ (execs # {} /\ mpc # "execute" /\ mKeys = <<>>) =>
            keys = {} /\ mpc \in {"err", "idle"}

\* C11: a Session::execute / Session::query call asks the pool at most once
\* and sends at most one statement; when the acquire fails the call returns
\* that error and has sent no statement; when the statement fails the call
\* returns the backend's error as it was raised.
C11_NoRetry ==
  \A t \in Tasks :
    /\ scAcquires[t] <= 1
    /\ scStatements[t] <= scAcquires[t]
    /\ scPc[t] = "returned" =>
         /\ scConn[t] = NoConn
         /\ scFail[t] # NoErr => scRet[t] = [tag |-> "err", err |-> scFail[t]]
         /\ (scFail[t] # NoErr /\ scStatements[t] = 0) => scAcquires[t] = 1
         /\ scRet[t].tag = "ok" => scAcquires[t] = 1 /\ scStatements[t] = 1 /\ scFail[t] = NoErr

\* C11 witness: one call has returned the error of its failed acquire without
\* sending a statement, another the error of its failed statement.
C11_Witness ==
  \E t, u \in Tasks :
    /\ scPc[t] = "returned" /\ scStatements[t] = 0 /\ scRet[t].tag = "err"
    /\ scPc[u] = "returned" /\ scStatements[u] = 1 /\ scRet[u].tag = "err"
    /\ scRet[u].err = scFail[u] /\ scFail[u] \in DbErrors

\* C19: for a key without dots, lookup returns the value of the most recently
\* pushed local binding with that name if there is one, otherwise the root
\* map's entry for the key, otherwise Null; push adds a binding on top and pop
\* removes exactly the top one, so after pop the lookups are again what they
\* were before the matching push.
C19_LookupPlain ==
  /\ [](lastCall.fn = "lookup" /\ Len(lastCall.key) = 1 =>
          LET named == {i \in DOMAIN ctxLocals : ctxLocals[i].k = lastCall.key}
          IN IF named # {}
               THEN /\ lastCall.out = ctxLocals[MaxOf(named)].v
               ELSE IF ctxRoot.t = "Map" /\ lastCall.key \in DOMAIN ctxRoot.m
                      THEN lastCall.out = ctxRoot.m[lastCall.key]
                      ELSE lastCall.out = Null)
  /\ [][/\ ctxRoot' = ctxRoot
        /\ Len(ctxLocals') > Len(ctxLocals) => Front(ctxLocals') = ctxLocals
        /\ Len(ctxLocals') < Len(ctxLocals) => ctxLocals' = Front(ctxLocals)]_vars

\* C19 witness: a name bound in the root is looked up under two local
\* bindings of that name with different values; the later one is returned.
C19_Witness ==
  /\ lastCall.fn = "lookup" /\ Len(lastCall.key) = 1
  /\ ctxRoot.t = "Map" /\ lastCall.key \in DOMAIN ctxRoot.m
  /\ Len(ctxLocals) = 2
  /\ ctxLocals[1].k = lastCall.key /\ ctxLocals[2].k = lastCall.key
  /\ ctxLocals[1].v # ctxLocals[2].v
  /\ lastCall.out = ctxLocals[2].v

\* The value reached from v along path through Map entries, Null when a
\* segment is missing or the value at hand is not a Map.
RECURSIVE WalkOrNull(_, _)
WalkOrNull(v, path) ==
  IF path = <<>> THEN v
  ELSE IF v.t = "Map" /\ <<Head(path)>> \in DOMAIN v.m
         THEN WalkOrNull(v.m[<<Head(path)>>], Tail(path))
         ELSE Null

\* The binding of key in the scope: the local pushed last, else the root
\* map's entry; None when there is neither.
ScopeBinding(key) ==
  LET named == {i \in DOMAIN ctxLocals : ctxLocals[i].k = key}
  IN IF named # {} THEN Some(ctxLocals[MaxOf(named)].v)
     ELSE IF ctxRoot.t = "Map" /\ key \in DOMAIN ctxRoot.m THEN Some(ctxRoot.m[key])
     ELSE None

\* C20 (as stated): for a dotted key the head segment is resolved
\* locals-then-root and the remaining segments are walked through Map entries
\* only; the result is Null when the head is unbound, a segment is missing or
\* a value on the way is not a Map.
C20_DottedWalk ==
  (lastCall.fn = "lookup" /\ Len(lastCall.key) > 1) =>
    LET head == ScopeBinding(<<Head(lastCall.key)>>)
    IN lastCall.out = IF head.some THEN WalkOrNull(head.v, Tail(lastCall.key)) ELSE Null

\* C20 (amended): lookup returns a value for every key and context; for a
\* dotted key, a binding of the whole key (a local or a root entry named
\* "a.b") is returned if there is one; otherwise the head segment is resolved
\* locals-then-root and the remaining segments are walked through Map entries
\* only, with Null as the result when the head is unbound, a segment is
\* missing or a value on the way is not a Map.
C20_DottedLookup ==
  lastCall.fn = "lookup" =>
    /\ lastCall.out.t \in {"Null", "Bool", "I16", "I32", "I64", "U8", "F64", "Str", "List", "Map"}
    /\ Len(lastCall.key) > 1 =>
         LET whole == ScopeBinding(lastCall.key)
             head == ScopeBinding(<<Head(lastCall.key)>>)
         IN lastCall.out =
              IF whole.some THEN whole.v
              ELSE IF head.some THEN WalkOrNull(head.v, Tail(lastCall.key))
              ELSE Null

\* C20 witness: a three-segment key was walked through two Maps to its value,
\* with no binding of the whole key.
C20_Witness ==
  /\ lastCall.fn = "lookup" /\ Len(lastCall.key) = 3
  /\ ~ScopeBinding(lastCall.key).some
  /\ lastCall.out = Str("deep")

\* ---------------------------------------------------------------- C17, C18

\* What the name of a one-name atom is bound to in a context without locals.
BoundTo(key) == IF key \in DOMAIN ctxRoot.m THEN Some(ctxRoot.m[key]) ELSE None

\* C17: an atom without a comparison operator is true exactly when the value
\* its name looks up to is neither Null nor Bool(false); in particular 0, the
\* empty string and the empty list are true and an unbound name is false.
C17_Truthiness ==
  (lastCall.fn = "eval_atom" /\ Len(lastCall.atom) = 1) =>
    LET bound == BoundTo(lastCall.atom[1].name)
    IN /\ ~bound.some => ~lastCall.out
       /\ bound.some => (lastCall.out <=> bound.v \notin {Null, Bool(FALSE)})
       /\ (bound.some /\ bound.v \in {I64(FALSE, 0), Str(""), List(<<>>)}) => lastCall.out

C17_Witness ==
  /\ lastCall.fn = "eval_atom"
  /\ lastCall.atom = <<NameTok(<<"a">>)>>
  /\ BoundTo(<<"a">>) = Some(Str(""))
  /\ lastCall.out

IntVariants == {"I16", "I32", "I64", "U8"}

NumericVariants == IntVariants \cup {"F64"}

\* l op r on the numbers themselves
NumericOrder(op, l, r) ==
  LET less(x, y) == (~x.big /\ y.big) \/ (x.big = y.big /\ x.d < y.d)
  IN CASE op = "==" -> l = r
       [] op = "!=" -> l # r
       [] op = "<" -> less(l, r)
       [] op = "<=" -> ~less(r, l)
       [] op = ">" -> less(r, l)
       [] op = ">=" -> ~less(l, r)

\* C18: between two integer values of any variants ==, !=, <, <=, >, >= are
\* the comparisons of the numbers they hold, and an ordering comparison with a
\* side that is not numeric is false.
C18_Comparisons ==
  (lastCall.fn = "eval_atom" /\ OpsIn(lastCall.atom) # {}) =>
    LET atom == lastCall.atom
        op == SplitOp(atom)
        left == LookupText(ctxRoot, ctxLocals, SubSeq(atom, 1, SplitAt(atom) - 1))
        right == RightValue(ctxRoot, ctxLocals, SubSeq(atom, SplitAt(atom) + 1, Len(atom)))
    IN /\ (left.t \in IntVariants /\ right.t \in IntVariants) =>
            (lastCall.out <=> NumericOrder(op, left.n, right.n))
       /\ (op \in {"<", "<=", ">", ">="}
             /\ (left.t \notin NumericVariants \/ right.t \notin NumericVariants)) =>
            ~lastCall.out

\* ------------------------------------------------------------ C12 .. C15

\* C12, as stated: a render of the tree of the first render returns the SQL
\* and the parameters the first render returned (the root is the same in all
\* renders of a run), whatever happened to the cache in between.
C12_Deterministic ==
  (rStatus = "done" /\ rFirst.tree = rTree) =>
    (rSql = rFirst.sql /\ rParams = rFirst.params)

\* The contents of the trees the Include nodes of a render found.
SeenContents(seen) == [j \in DOMAIN seen |-> seen[j].src]

\* C12, amended: a render of the tree of the first render returns the SQL and
\* the parameters the first render returned, provided its Include nodes found
\* the cache holding the same contents as they did in the first render.
C12_DeterministicGivenCache ==
  (rStatus = "done" /\ rFirst.tree = rTree /\ SeenContents(rSeen) = SeenContents(rFirst.seen)) =>
    (rSql = rFirst.sql /\ rParams = rFirst.params)

C12_Witness ==
  /\ rStatus = "done"
  /\ rFirst.tree = rTree
  /\ SeenContents(rSeen) = SeenContents(rFirst.seen)
  /\ rSeen # <<>>
  /\ rSeen[1] # NoTree
  /\ rSeen[1].id # rFirst.seen[1].id

IsPlaceholder(tok) == "ph" \in DOMAIN tok

\* C13: the placeholders in the SQL, the parameters and param_count number the
\* same; placeholder k was asked of the driver with index k and the name of
\* parameter k; and the parameters change only by a Var node appending its
\* name with the value its name looks up to.
C13_ParamsFollowVars ==
  /\ [](LET phs == SelectSeq(rSql, IsPlaceholder)
        IN /\ Len(phs) = Len(rParams)
           /\ Len(rParams) = rCount
           /\ \A k \in DOMAIN phs : phs[k].ph = k /\ phs[k].name = rParams[k].name)
  /\ [][/\ (rStatus = "running" /\ rParams' # rParams) => At("Var")
        /\ (At("Var") /\ rStack' # rStack) =>
             rParams' = Append(rParams, [v |-> Lookup(ctxRoot, ctxLocals, Node.name),
                                         name |-> Node.name])]_vars

C13_Witness ==
  /\ rStatus = "done"
  /\ rTree = <<IdsLoop(<<Include(IncludeName)>>), Var(<<"a">>)>>
  /\ SeenContents(rSeen) = <<1, 1>>
  /\ rParams = <<[v |-> I64(FALSE, 1), name |-> <<"a">>], [v |-> I64(FALSE, 1), name |-> <<"a">>],
                 [v |-> I64(FALSE, 1), name |-> <<"a">>]>>
  /\ rSql[Len(rSql)] = Placeholder(3, <<"a">>)

\* What the nodes add to a buffer, as the node descriptions have it, for
\* trees without Include nodes.
RECURSIVE Emit(_, _, _)
RECURSIVE EmitElements(_, _, _, _, _)
Emit(nodes, locals, buf) ==
  IF nodes = <<>> THEN buf
  ELSE LET n == Head(nodes)
           here ==
             CASE n.node = "Text" -> [buf EXCEPT !.sql = Append(@, Literal(n.text))]
               [] n.node = "Var" ->
                    [sql |-> Append(buf.sql, Placeholder(Len(buf.params) + 1, n.name)),
                     params |-> Append(buf.params,
                                       [v |-> Lookup(ctxRoot, locals, n.name), name |-> n.name])]
               [] n.node = "If" ->
                    IF EvalExpr(ctxRoot, locals, n.test) THEN Emit(n.body, locals, buf) ELSE buf
               [] n.node = "For" ->
                    LET coll == Lookup(ctxRoot, locals, n.collection)
                    IN IF coll.t # "List" \/ coll.items = <<>>
                         THEN buf
                         ELSE LET opened == [buf EXCEPT !.sql = Append(@, Literal(n.open))]
                                  body == EmitElements(n, coll.items, 1, locals, opened)
                              IN [body EXCEPT !.sql = Append(@, Literal(n.close))]
       IN Emit(Tail(nodes), locals, here)

EmitElements(for, arr, i, locals, buf) ==
  IF i > Len(arr) THEN buf
  ELSE LET joined == IF i > 1 THEN [buf EXCEPT !.sql = Append(@, Literal(for.sep))] ELSE buf
           bound == Append(locals, [k |-> for.item, v |-> arr[i]])
       IN EmitElements(for, arr, i + 1, locals, Emit(for.body, bound, joined))

RECURSIVE HasInclude(_)
HasInclude(nodes) ==
  \E j \in DOMAIN nodes :
    \/ nodes[j].node = "Include"
    \/ nodes[j].node \in {"If", "For"} /\ HasInclude(nodes[j].body)

RECURSIVE HasFor(_)
HasFor(nodes) ==
  \E j \in DOMAIN nodes :
    \/ nodes[j].node = "For"
    \/ nodes[j].node = "If" /\ HasFor(nodes[j].body)

\* C14: a For over something that is not a List, or over an empty List, adds
\* nothing; over a List of n >= 1 elements it adds open, the body once per
\* element in order with the item bound to it, sep between successive
\* iterations, and close.
C14_ForNode ==
  (rStatus = "done" /\ HasFor(rTree) /\ ~HasInclude(rTree)) =>
    [sql |-> rSql, params |-> rParams] = Emit(rTree, <<>>, [sql |-> <<>>, params |-> <<>>])

C14_Witness ==
  /\ rStatus = "done"
  /\ rTree = <<IdsLoop(<<Var(<<"i">>), Var(<<"a">>)>>), Var(<<"a">>)>>
  /\ Len(SelectSeq(rSql, LAMBDA tok : tok = Literal(","))) = 1
  /\ rParams[1].v = I64(FALSE, 10)
  /\ rParams[3].v = I64(FALSE, 20)

IsPrefix(s, t) == Len(s) <= Len(t) /\ SubSeq(t, 1, Len(s)) = s

\* C15: an Include whose refid is in the cache starts a render of the cached
\* tree on the same buffer and the same context, and what that render adds is
\* appended (a Var of the included tree naming the item of an enclosing For
\* gets the current element); an Include whose refid is not in the cache
\* leaves SQL and parameters as they are and the render goes on.
C15_Include ==
  [][/\ (At("Include") /\ rSeen' # rSeen /\ cache[Node.refid] # NoEntry /\ Len(rStack) < MaxStack) =>
          /\ rStack' = Append(rStack, Frame(ParseTemplate(cache[Node.refid].ast.src)))
          /\ UNCHANGED <<rSql, rParams, rCount, ctxRoot, ctxLocals>>
          /\ rStatus' = "running"
     /\ (At("Include") /\ rSeen' # rSeen /\ cache[Node.refid] = NoEntry) =>
          /\ rStack' = Advanced
          /\ UNCHANGED <<rSql, rParams, rCount, ctxRoot, ctxLocals>>
          /\ rStatus' = "running"
     /\ (At("Include") /\ rStack' # rStack) => rSeen' # rSeen
     /\ (rStatus = "running" /\ rStatus' # "overflow") =>
          (IsPrefix(rSql, rSql') /\ IsPrefix(rParams, rParams'))
     /\ (At("Var") /\ rStack' # rStack /\ ctxLocals # <<>> /\ Node.name = Last(ctxLocals).k) =>
          Last(rParams').v = Last(ctxLocals).v]_vars

C15_Witness ==
  /\ rStatus = "done"
  /\ rTree = <<IdsLoop(<<Include(IncludeName)>>), Var(<<"a">>)>>
  /\ SeenContents(rSeen) = <<2, 0>>
  /\ rParams = <<[v |-> I64(FALSE, 10), name |-> <<"i">>],
                 [v |-> I64(FALSE, 1), name |-> <<"a">>]>>

\* ---------------------------------------------------------------- C16

\* The pieces of a token text between the occurrences of a separator.
Pieces(tokens, s) ==
  LET cuts == {0, Len(tokens) + 1} \cup {j \in DOMAIN tokens : IsSep(tokens[j], s)}
  IN {SubSeq(tokens, p + 1, q - 1) :
        <<p, q>> \in {c \in cuts \X cuts : c[1] < c[2] /\ ~\E x \in cuts : c[1] < x /\ x < c[2]}}

\* At least one OR-part of the test has all of its atoms true.
SomeOrPartHolds(test) ==
  \E orPart \in Pieces(test, "or") :
    \A atom \in Pieces(orPart, "and") : EvalAtom(ctxRoot, ctxLocals, atom)

\* C16: a render of an If node returns the SQL and the parameter of its body
\* exactly when at least one OR-part of its test has all of its atoms true,
\* and an empty SQL and no parameter otherwise.
C16_IfTest ==
  (rStatus = "done" /\ Len(rTree) = 1 /\ rTree[1].node = "If") =>
    IF SomeOrPartHolds(rTree[1].test)
      THEN /\ rSql = <<Literal(" and adult = 1"), Placeholder(1, <<"a">>)>>
           /\ rParams = <<[v |-> Lookup(ctxRoot, <<>>, <<"a">>), name |-> <<"a">>]>>
      ELSE rSql = <<>> /\ rParams = <<>>

C16_Witness ==
  /\ rStatus = "done"
  /\ rTree[1].test = <<NameTok(<<"b">>), SepTok("and"), NameTok(<<"a">>), SepTok("or"),
                       NameTok(<<"a">>), OpTok("=="), IntTok(FALSE, 1)>>
  /\ Lookup(ctxRoot, <<>>, <<"a">>) = I32(1)
  /\ Lookup(ctxRoot, <<>>, <<"b">>) = Bool(FALSE)
  /\ rSql = <<Literal(" and adult = 1"), Placeholder(1, <<"a">>)>>

\* ---------------------------------------------------------------- C30

\* C30: while a task has a transaction begun with Session.begin() that is not
\* yet committed, rolled back or dropped, no Session call of that task has
\* acquired a connection from the pool, and a Session call of that task in
\* flight runs on the transaction's connection.
C30_TxIsTaskContext ==
  \A t \in Tasks :
    (HasCtx(t) /\ ~committed[t]) =>
      /\ sessAcq[t] = 0
      /\ sessConn[t] \in {NoConn, ctxConn[t]}

\* ---------------------------------------------------------------- C29

\* The trees somebody holds: the cache, a caller of get_ast, a render that
\* found one through an Include.
TreesHeld ==
  ({cache[n].ast : n \in Names} \cup {gRet[p] : p \in Callers}
     \cup {rSeen[i] : i \in DOMAIN rSeen}) \ {NoTree}

\* C29: a compiled tree is never changed after it is built.  Two holders of
\* the same tree see the same nodes, whatever was compiled, replaced or
\* removed since; no step changes the tree a render in progress was started
\* with, nor the nodes of a render() call that is on its stack; and the steps
\* of a render change nothing in the cache.
C29_TreeNeverChanged ==
  /\ [](\A x, y \in TreesHeld : x.id = y.id => x.src = y.src)
  /\ [][(rStatus = "running" /\ rStatus' # "running" => rStatus' \in {"done", "overflow", "failed"})
        /\ (rStatus = "running" /\ rStack' # <<>> =>
              /\ rTree' = rTree
              /\ rStack'[1].nodes = rTree
              /\ \A i \in DOMAIN rStack \cap DOMAIN rStack' : rStack'[i].nodes = rStack[i].nodes)
        /\ (rStack' # rStack => UNCHANGED cachevars)]_vars

\* A render of a tree that get_ast returned has got past its first node, and
\* the cache entry the tree came from has been removed.
C29_Witness ==
  /\ rStatus = "running"
  /\ gpc[1] = "done"
  /\ gRet[1] # NoTree
  /\ rTree = ParseTemplate(gRet[1].src)
  /\ Top.at > 1
  /\ cache[gName[1]].ast # gRet[1]

\* ---------------------------------------------------------------- C28

\* C28: no parameter in the list a render produces is a List or a Map value.
C28_ScalarParams ==
  \A i \in DOMAIN rParams : rParams[i].v.t \notin {"List", "Map"}

\* ---------------------------------------------------------------- C24

\* C24: find_mapper("namespace.id", type) returns the entry tagged with that
\* type whenever one is stored under the key, wherever it stands among the
\* entries; else the untagged entry if there is one; else none.
C24_FindMapper ==
  (fCall.fn = "find_mapper" /\ Len(fCall.sqlId) = 2) =>
    LET stored == store[fCall.sqlId[1]][fCall.sqlId[2]]
        tagged == {i \in DOMAIN stored : stored[i].database_type = fCall.type}
        untagged == {i \in DOMAIN stored : stored[i].database_type = NoTag}
    IN /\ tagged # {} => fCall.out.some /\ \E i \in tagged : fCall.out.v = stored[i]
       /\ (tagged = {} /\ untagged # {}) =>
            fCall.out.some /\ \E i \in untagged : fCall.out.v = stored[i]
       /\ (tagged = {} /\ untagged = {}) => ~fCall.out.some

\* The untagged entry was loaded before the tagged one, and the tagged one is
\* returned.
C24_Witness ==
  /\ fCall.fn = "find_mapper"
  /\ Len(fCall.sqlId) = 2
  /\ LET stored == store[fCall.sqlId[1]][fCall.sqlId[2]]
     IN /\ Len(stored) >= 2
        /\ stored[1].database_type = NoTag
        /\ stored[2].database_type = fCall.type
        /\ fCall.out.some
        /\ fCall.out.v = stored[2]

\* ---------------------------------------------------------------- C27

\* C27: after any sequence of loads, the entries under each (namespace, id)
\* have pairwise distinct backend-type tags; and a load of a document with an
\* (id, databaseType) pair that was stored under its namespace before the
\* load returns an error.
C27_DistinctTags ==
  /\ [](\A ns \in Namespaces, id \in Ids :
          \A i, j \in DOMAIN store[ns][id] :
            i # j => store[ns][id][i].database_type # store[ns][id][j].database_type)
  /\ [][(/\ loads' # loads
         /\ lDoc'.wellFormed
         /\ \E k \in DOMAIN lDoc'.nodes :
              /\ lDoc'.nodes[k] # Unknown
              /\ \E i \in DOMAIN store[lDoc'.ns][lDoc'.nodes[k].id] :
                   store[lDoc'.ns][lDoc'.nodes[k].id][i].database_type
                     = lDoc'.nodes[k].database_type)
        => lRet' = "err"]_vars

\* The second load failed after it had stored an entry: three entries stand
\* under one id, and a document holds at most MaxNodes = 2.
C27_Witness ==
  /\ loads = 2
  /\ lRet = "err"
  /\ lDoc.wellFormed
  /\ \E id \in Ids : Len(store[lDoc.ns][id]) = 3

\* ---------------------------------------------------------------- C25

\* C25: whichever Mapper operation is called, when no entry matches the sql
\* id it returns the Query error "not found", and when the matched entry has
\* no SQL text the Query error "empty content"; in both cases it has acquired
\* no connection and sent no statement.
C25_LookupErrors ==
  (oOp \in MapperOps) =>
    LET found == FindMapper(store, oId, oType)
    IN /\ ~found.some =>
            /\ oPc = "returned"
            /\ oRet = Query("SQL ID not found")
            /\ oAcquires = 0 /\ oStatements = 0
       /\ (found.some /\ found.v.content = NoContent) =>
            /\ oPc = "returned"
            /\ oRet = Query("SQL content empty")
            /\ oAcquires = 0 /\ oStatements = 0

\* batch_create over two inputs found the entry of its backend, which has no
\* content, while the untagged entry under the same id has.
C25_Witness ==
  /\ oOp = "batch_create"
  /\ oArgs = 2
  /\ oRet = Query("SQL content empty")
  /\ \E i \in DOMAIN store[oId[1]][oId[2]] : store[oId[1]][oId[2]][i].content # NoContent

\* ---------------------------------------------------------------- C26

\* C26: when the query of Mapper.get succeeds, get returns the row if the
\* query yielded exactly one row, and a Query error if it yielded none or
\* more than one.
C26_GetOneRow ==
  (oOp = "get" /\ oPc = "returned" /\ oStatements = 1 /\ oRet # BackendError) =>
    IF oRows = 1 THEN oRet = OkOutcome("row") ELSE oRet.variant = "Query"

\* get over a query that yielded two rows
C26_Witness ==
  /\ oOp = "get"
  /\ oPc = "returned"
  /\ oRows = 2
  /\ oRet = Query("Expected 1 row, got multiple")

\* ---------------------------------------------------------------- C21

\* C21: when the input has ended with directives still open, each turn of the
\* closing loop takes the innermost open directive and appends it, with the
\* body accumulated for it, as the last node of the scope that encloses it,
\* leaving the scopes below unchanged; and one unclosed <if> followed by text
\* parses into a single If node whose body is that text.
C21_AutoClose ==
  /\ []((pPc = "done" /\ pTemplate = IfPiece \o TextPiece) =>
          pOut = <<If(<<"a", ">", "1">>, <<Text(TextPiece)>>)>>)
  /\ [][(pPc = "parsing" /\ pPos >= Len(pTemplate) /\ pTags # <<>>) =>
          /\ pTags' = SubSeq(pTags, 1, Len(pTags) - 1)
          /\ Len(pNodes') = Len(pNodes) - 1
          /\ \A i \in 1..(Len(pNodes) - 2) : pNodes'[i] = pNodes[i]
          /\ LET scope == pNodes'[Len(pNodes')]
                 closed == scope[Len(scope)]
             IN /\ SubSeq(scope, 1, Len(scope) - 1) = pNodes[Len(pNodes) - 1]
                /\ closed.node = pTags[Len(pTags)].variant
                /\ closed.body = pNodes[Len(pNodes)]
                /\ closed.node = "If" => closed.test = pTags[Len(pTags)].test
                /\ closed.node = "For" => closed.item = pTags[Len(pTags)].item]_vars

\* An unclosed <for> inside an unclosed <if>: the For node holds the text
\* that followed it and is the only node of the If node's body, which is the
\* only node of the root.
C21_Witness ==
  /\ pPc = "done"
  /\ pTemplate = IfPiece \o ForPiece \o TextPiece
  /\ Len(pOut) = 1
  /\ pOut[1].node = "If"
  /\ Len(pOut[1].body) = 1
  /\ pOut[1].body[1].node = "For"
  /\ pOut[1].body[1].body = <<Text(TextPiece)>>

\* ---------------------------------------------------------------- C22

\* The name of the tag the text starts with: what stands between '<' and the
\* first space, '/' or '>'.
TagName(s) ==
  LET stops == {i \in 2..Len(s) : s[i] \in {" ", "/", ">"}}
  IN IF stops = {} THEN Drop(s, 1) ELSE SubSeq(s, 2, MinOf(stops) - 1)

HasAttrs(s, name, keys) ==
  /\ TagName(s) = name
  /\ FindTagEnd(s).some
  /\ \A k \in keys : ExtractAttr(SubSeq(s, Len(name) + 2, FindTagEnd(s).v), k).some

\* The text starts with a well-formed <if test=..>, <for item=.. collection=..>,
\* <include refid=..>, #{name}, or with the closing tag of the innermost open
\* directive.
WellFormedAt(s, tags) ==
  \/ HasAttrs(s, <<"i", "f">>, {<<"t", "e", "s", "t">>})
  \/ HasAttrs(s, <<"f", "o", "r">>,
              {<<"i", "t", "e", "m">>, <<"c", "o", "l", "l", "e", "c", "t", "i", "o", "n">>})
  \/ HasAttrs(s, <<"i", "n", "c", "l", "u", "d", "e">>, {<<"r", "e", "f", "i", "d">>})
  \/ /\ StartsWith(s, <<"#", "{">>)
     /\ \E i \in 3..Len(s) : s[i] = "}" /\ \E j \in 3..(i - 1) : s[j] # " "
     /\ \A i \in 3..Len(s) : s[i] = "}" => \E j \in 3..(i - 1) : s[j] # " " \/ s[j] = "}"
  \/ tags # <<>> /\ tags[Len(tags)].variant = "If" /\ StartsWith(s, EndIfPiece)
  \/ tags # <<>> /\ tags[Len(tags)].variant = "For" /\ StartsWith(s, EndForPiece)

\* C22: where the text that remains starts like a tag or a variable but with
\* none of the well-formed forms, the turn of the loop keeps the character as
\* literal text of the current scope and leaves the open directives as they
\* are.
C22_MalformedKeptLiteral ==
  [][(/\ pPc = "parsing" /\ pPos < Len(pTemplate)
      /\ StartsWith(Remaining, <<"<">>) \/ StartsWith(Remaining, <<"#", "{">>)
      /\ ~WellFormedAt(Remaining, pTags))
     => /\ pTags' = pTags
        /\ pPos' = pPos + 1
        /\ Len(pNodes') = Len(pNodes)
        /\ \A i \in 1..(Len(pNodes) - 1) : pNodes'[i] = pNodes[i]
        /\ LET before == pNodes[Len(pNodes)]
               after == pNodes'[Len(pNodes)]
           IN IF before # <<>> /\ before[Len(before)].node = "Text"
                THEN /\ Len(after) = Len(before)
                     /\ SubSeq(after, 1, Len(after) - 1) = SubSeq(before, 1, Len(before) - 1)
                     /\ after[Len(after)] = Text(before[Len(before)].text \o <<Remaining[1]>>)
                ELSE after = before \o <<Text(<<Remaining[1]>>)>>]_vars

\* ---------------------------------------------------------------- C23

RECURSIVE Tidy(_)
Tidy(nodes) ==
  /\ \A i \in DOMAIN nodes :
       /\ nodes[i].node = "Text" => nodes[i].text # <<>>
       /\ nodes[i].node \in {"If", "For"} => Tidy(nodes[i].body)
  /\ \A i \in 1..(Len(nodes) - 1) : ~(nodes[i].node = "Text" /\ nodes[i + 1].node = "Text")

\* C23: in every node list of a parsed tree, and of a tree being built, no two
\* adjacent nodes are both Text and no Text node is empty.
C23_TextMerged ==
  /\ Tidy(pOut)
  /\ \A i \in DOMAIN pNodes : Tidy(pNodes[i])

\* Text, a '<' that starts no tag, and text again have become one Text node.
C23_Witness ==
  /\ pPc = "done"
  /\ pTemplate = TextPiece \o LtPiece \o TextPiece
  /\ pOut = <<Text(<<"t", "<", "t">>)>>

\* ---------------------------------------------------------------- C31

\* C31: with generated keys, last_insert_id is asked of the connection that
\* executed the insert: what it answers there is the key that insert
\* generated, and every value collected is the key of its own element's
\* insert, whatever other tasks insert through the pool.
C31_KeyOfOwnInsert ==
  (mOp \in {"create", "batch_create"} /\ mGen) =>
    /\ mpc = "last_insert_id" => LastInsertId(mConn) = mKeys[Len(mKeys)]
    /\ \A i \in DOMAIN mResults : mResults[i] = mKeys[i]

\* ---------------------------------------------------------------- C32

\* The results of commit() and rollback() that mean the call succeeded.
Succeeded == {TxResult("commit", TRUE), TxResult("rollback", TRUE)}

\* C32: once commit() or rollback() of a context has succeeded the context
\* counts as finished for as long as it lives, and dropping it then spawns no
\* rollback task and sends nothing more on its connection, which goes back to
\* the pool as it is.
C32_DropAfterSuccessIsSilent ==
  /\ [](\A t \in Tasks : (HasCtx(t) /\ txRet[t] \in Succeeded) => committed[t])
  /\ [][\A t \in Tasks :
          (HasCtx(t) /\ committed[t]) =>
            IF pc'[t] \in {"tx", "commit", "rollback"}
              THEN committed'[t]
              ELSE /\ rb' = rb
                   /\ ctxConn[t] \in idle'
                   /\ lastTx'[ctxConn[t]] = "none"
                   /\ dropped'[t] = "committed"]_vars

\* A context has been dropped after a successful commit or rollback, and no
\* rollback task exists.
C32_Witness ==
  \E t \in Tasks :
    /\ dropped[t] = "committed"
    /\ pc[t] = "idle"
    /\ \A k \in Conns : rb[k] = "none"
    /\ idle = Conns

\* ---------------------------------------------------------------- C33

\* C33: a commit() or rollback() that fails returns its error and leaves the
\* committed flag as it was, so a context that has seen no success is
\* uncommitted; dropping an uncommitted context spawns the rollback task on
\* its connection, and the statement that task sends is rollback.
C33_FailureKeepsUncommitted ==
  /\ [](\A t \in Tasks : (HasCtx(t) /\ txRet[t] = TxResult("begin", TRUE)) => ~committed[t])
  /\ [][\A t \in Tasks :
          /\ (pc[t] \in {"commit", "rollback"} /\ pc'[t] = "tx" /\ txRet'[t][2] = "err") =>
               /\ txRet'[t] = TxResult(pc[t], FALSE)
               /\ committed'[t] = committed[t]
          /\ (pc[t] = "tx" /\ pc'[t] = "idle" /\ ~committed[t]) =>
               /\ rb'[ctxConn[t]] = "spawned"
               /\ ctxConn[t] \notin idle'
               /\ dropped'[t] = "uncommitted"]_vars
  /\ [][\A k \in Conns :
          (rb[k] = "spawned" /\ rb'[k] # "spawned") =>
            (rb'[k] = "running" /\ lastTx'[k] = "rollback")]_vars

\* A context whose only commit() failed has been dropped: the connection's
\* last transaction call is still that commit, and the rollback task is
\* spawned on it.
C33_Witness ==
  \E t \in Tasks, k \in Conns :
    /\ dropped[t] = "uncommitted"
    /\ pc[t] = "idle"
    /\ rb[k] = "spawned"
    /\ lastTx[k] = "commit"
    /\ \A u \in Tasks \ {t} : pc[u] = "idle" /\ dropped[u] = "no" /\ txRet[u] = NoTxRet

\* ---------------------------------------------------------------- C34

\* C34: begin acquires exactly one connection and sends BEGIN on it, and
\* while BEGIN runs nothing else is sent there; if the acquire fails nothing
\* is acquired and nothing is sent; if BEGIN fails the error is returned, no
\* context exists, the connection is back in the pool, and no rollback task
\* and no transaction call is left on it.
C34_BeginAcquiresThenBegins ==
  /\ [](\A t \in Tasks :
          /\ pc[t] = "begin" =>
               /\ ctxAcq[t] = 1
               /\ ctxConn[t] \in Conns \ idle
               /\ lastTx[ctxConn[t]] = "begin"
               /\ rb[ctxConn[t]] = "none"
          /\ txRet[t] \in {TxResult("begin", FALSE), TxResult("acquire", FALSE)} =>
               /\ ~HasCtx(t)
               /\ pc[t] = "idle" => (ctxConn[t] = NoConn /\ ctxAcq[t] = 0))
  /\ [][\A t \in Tasks :
          /\ (pc[t] = "idle" /\ pc'[t] = "begin") =>
               \E k \in idle :
                 /\ idle' = idle \ {k}
                 /\ ctxConn'[t] = k
                 /\ lastTx' = [lastTx EXCEPT ![k] = "begin"]
          /\ (txRet'[t] = TxResult("acquire", FALSE) /\ txRet[t] # txRet'[t]) =>
               /\ pc[t] = "idle" /\ pc'[t] = "idle"
               /\ UNCHANGED <<idle, ctxConn, ctxAcq, lastTx, stmts, rb>>
          /\ (pc[t] = "begin" /\ txRet'[t] = TxResult("begin", FALSE)) =>
               /\ pc'[t] = "idle"
               /\ ctxConn[t] \in idle'
               /\ lastTx'[ctxConn[t]] = "none"
               /\ rb' = rb
               /\ stmts' = stmts]_vars

\* BEGIN has failed: the caller holds the error, no context exists, every
\* connection is back in the pool and none has a transaction call or a
\* rollback task on it.
C34_Witness ==
  \E t \in Tasks :
    /\ txRet[t] = TxResult("begin", FALSE)
    /\ pc[t] = "idle"
    /\ idle = Conns
    /\ \A k \in Conns : lastTx[k] = "none" /\ rb[k] = "none"

\* ---------------------------------------------------------------- C37

\* C37: a load that returns an error leaves the mapper store exactly as it
\* was before the load, so find_mapper resolves nothing of the failed load.
C37_FailedLoadLeavesStore ==
  [][(loads' # loads /\ lRet' = "err") => store' = store]_vars

\* ---------------------------------------------------------------- C35

\* C35: when the statement of entry 1.2, which holds <include refid="1.1"/>,
\* has been rendered for a Mapper operation while entry 1.1 is loaded, the
\* SQL and the parameter of entry 1.1 are in the rendered output.
C35_IncludedEntryRendered ==
  ( /\ rStatus = "done"
    /\ oPc = "session"
    /\ oId = <<1, 2>>
    /\ FindMapper(store, <<1, 1>>, oType).some
    /\ \E i \in DOMAIN rTree : rTree[i] = Include(RefidOf(<<1, 1>>)) ) =>
      /\ \A i \in DOMAIN ParseTemplate(FindMapper(store, <<1, 1>>, oType).v.content) :
           LET node == ParseTemplate(FindMapper(store, <<1, 1>>, oType).v.content)[i]
           IN /\ node.node = "Text" => \E j \in DOMAIN rSql : rSql[j] = Literal(node.text)
              /\ node.node = "Var" => \E j \in DOMAIN rParams : rParams[j].name = node.name

\* ---------------------------------------------------------------- C36

\* C36: every render_template call returns, whatever the cache holds: no run
\* follows includes without end.  The sample contents include one name only,
\* so a chain of MaxStack nested calls repeats a template that is already
\* being rendered and can never unwind.
C36_RenderTerminates == rStatus # "overflow"

\* ---------------------------------------------------------------- C38

\* C38: between the turns of the parse loop and of close_remaining_tags the
\* node-accumulation stack holds exactly one frame more than the open-tag
\* stack; parse returns with the open-tag stack empty, and what it returns is
\* the one frame left, the root frame.
C38_StacksInStep ==
  /\ [](pPc = "parsing" => Len(pNodes) = Len(pTags) + 1)
  /\ [][(pPc = "parsing" /\ pPc' = "done") =>
          /\ pTags = <<>> /\ pTags' = <<>>
          /\ pNodes # <<>>
          /\ pOut' = pNodes[1]
          /\ pNodes' = <<>>]_vars

\* <if test="a>1">#{ a}</if> has been parsed: the root frame returned holds
\* the If node with the variable in its body.
C38_Witness ==
  /\ pPc = "done"
  /\ pTemplate = IfPiece \o VarPiece \o EndIfPiece
  /\ pTags = <<>>
  /\ Len(pOut) = 1
  /\ pOut[1].node = "If"
  /\ Len(pOut[1].body) = 1

\* ---------------------------------------------------------------- C39

\* C39: parse never fails and returns a tree for every text: each turn of
\* the scan moves the position forward by at least one and never past the
\* end of the text, and parse returns only once the position is the end.
C39_ParseAdvances ==
  /\ [](pPc # "panicked")
  /\ [](pPc = "parsing" => pPos <= Len(pTemplate))
  /\ [][(pPc = "parsing" /\ pPos < Len(pTemplate)) =>
          (pPc' = "parsing" /\ pPos' > pPos /\ pPos' <= Len(pTemplate))]_vars
  /\ [][(pPc = "parsing" /\ pPc' = "done") => pPos = Len(pTemplate)]_vars

\* ---------------------------------------------------------------- C40

\* The calls of render in progress that are an iteration of a For node, from
\* the outermost in, and the binding each one's iteration stands for.
Iterating ==
  {j \in 1..(Len(rStack) - 1) :
     rStack[j].nodes[rStack[j].at].node = "For" /\ rStack[j].iter > 0}

RECURSIVE LoopBindings(_)
LoopBindings(j) ==
  IF j = 0 THEN <<>>
  ELSE IF j \in Iterating
    THEN Append(LoopBindings(j - 1),
                [k |-> rStack[j].nodes[rStack[j].at].item, v |-> rStack[j].arr[rStack[j].iter]])
    ELSE LoopBindings(j - 1)

\* C40: during a render the local-binding stack holds exactly one binding
\* (item -> current element) for each For body being rendered, outermost
\* first, and nothing else: a body's render starts and ends on the stack of
\* its For node plus that one binding, every node list returns with the
\* stack it was entered with, and after a loop, nested or not, the stack is
\* what it was before it.  The render as a whole begins and ends with no
\* binding.
C40_LocalsFollowLoops ==
  /\ rStatus = "running" => ctxLocals = LoopBindings(Len(rStack) - 1)
  /\ rStatus = "done" => ctxLocals = <<>>

\* In the first turn of the outer loop the inner loop has bound i to 10 and
\* to 20 on top of the outer i = 10 and returned; the Var after it has read
\* the outer binding again.
C40_Witness ==
  /\ rStatus = "running"
  /\ rTree = <<IdsLoop(<<IdsLoop(<<Var(<<"i">>)>>), Var(<<"i">>)>>), Var(<<"a">>)>>
  /\ Len(ctxLocals) = 1
  /\ ctxLocals[1].v = I64(FALSE, 10)
  /\ Len(rParams) = 3
  /\ rParams[2].v = I64(FALSE, 20)
  /\ rParams[3].v = I64(FALSE, 10)

====
